---------------------------- MODULE Spec2Model ----------------------------
(***************************************************************************)
(* A model of hidden-web-caches-discovery: the cache-busting request       *)
(* mutator (lib/cache_buster.py), the HTTP/2 timeless-timing engine        *)
(* (lib/h2time.py) and the experiment controllers (experiment-wcd.py,      *)
(* preliminary-experiment.py, hidden-web-caches-discovery.py).             *)
(*                                                                         *)
(* Text is modelled as a sequence of one-character strings, so that        *)
(* parsing, concatenation, prefix and substring tests are computed and not *)
(* assumed.  A Python dict is an insertion-ordered sequence of [k, v]      *)
(* records.  A Python object that several names refer to (the scripts'     *)
(* `headers` dict, the mutable default arguments of cache_bust_request)    *)
(* lives in a heap and is named by a reference.                            *)
(***************************************************************************)
EXTENDS Integers, Sequences, FiniteSets, TLC

VARIABLES
    _cache_busters,  \* CacheBuster._cache_busters, the class-level ledger
    rng,             \* state of the `random` module: character draws made so far
    issued,          \* history: every token get_unique_cache_buster returned
    heap,            \* the dict objects shared by reference
    cbOut,           \* CacheBuster driver: what the last call returned
    cbCalls,         \* CacheBuster driver: calls made so far
    h2time,          \* the H2Time instance: connection_open, socket, connection,
                     \* sent_streams
    request1,        \* H2Time.request1
    request2,        \* H2Time.request2
    run,             \* run_attack and its caller: pc, num_request_pairs, the loop
                     \* index, results, stream_id1, stream_id2
    net,             \* the peer and the wall clock: clock, order (responses
                     \* recorded), events (events delivered to this pair),
                     \* responded (streams of this connection already answered)
    trace,           \* history: the socket calls and frame serialisations of the
                     \* pair being timed, in order
    pairLog,         \* history: how each pair of run_attack ended
    ctl,             \* main() of an experiment script: its position and locals
    sent_requests,   \* the randomized and fixed buckets of the entry being tested
    statistics,      \* statistics: errors, tested; saved once save_dictionaries ran
    wireLog,         \* history: what the rounds of the current pair and phase
                     \* put on the wire
    urlLog,          \* history: how the handling of each URL ended
    faults,          \* history: the failures the network and the scripts'
                     \* collaborators have produced so far
    an               \* lib/analysis.py: the last call on an Analysis object, its
                     \* arguments and what it returned

cbVars == <<_cache_busters, rng, issued, heap, cbOut, cbCalls>>

h2Vars == <<h2time, request1, request2, run, net, trace, pairLog>>

ctlVars == <<ctl, sent_requests, statistics, wireLog, urlLog, faults>>
anVars == <<an>>

vars == <<_cache_busters, rng, issued, heap, cbOut, cbCalls,
          h2time, request1, request2, run, net, trace, pairLog,
          ctl, sent_requests, statistics, wireLog, urlLog, faults, an>>

---------------------------------------------------------------------------
(* Text helpers: Python str operations on character sequences.             *)

Range(s) == {s[i] : i \in DOMAIN s}

\* str.startswith
StartsWith(s, p) == Len(s) >= Len(p) /\ SubSeq(s, 1, Len(p)) = p

\* str.endswith
EndsWith(s, p) == Len(s) >= Len(p) /\ SubSeq(s, Len(s) - Len(p) + 1, Len(s)) = p

\* `p in s` for two strings
Contains(s, p) == \E i \in 1..(Len(s) - Len(p) + 1) : SubSeq(s, i, i + Len(p) - 1) = p

\* str.find(c, start) for a one-character c, 1-based; 0 when absent
Find(s, c, start) ==
    LET hits == {i \in start..Len(s) : s[i] = c}
    IN  IF hits = {} THEN 0 ELSE CHOOSE i \in hits : \A j \in hits : i <= j

\* str.rfind(c), 1-based; 0 when absent
RFind(s, c) ==
    LET hits == {i \in 1..Len(s) : s[i] = c}
    IN  IF hits = {} THEN 0 ELSE CHOOSE i \in hits : \A j \in hits : i >= j

UPPER == <<"A","B","C","D","E","F","G","H","I","J","K","L","M","N","O","P","Q","R","S","T","U","V","W","X","Y","Z">>
LOWER == <<"a","b","c","d","e","f","g","h","i","j","k","l","m","n","o","p","q","r","s","t","u","v","w","x","y","z">>

LowerMap == [c \in Range(UPPER) |-> LOWER[CHOOSE i \in DOMAIN UPPER : UPPER[i] = c]]

LowerChar(c) == IF c \in DOMAIN LowerMap THEN LowerMap[c] ELSE c

\* str.lower
Lower(s) == [i \in DOMAIN s |-> LowerChar(s[i])]

\* str.strip, for the blank character
RECURSIVE LStrip(_)
LStrip(s) == IF s # <<>> /\ Head(s) = " " THEN LStrip(Tail(s)) ELSE s

RECURSIVE RStrip(_)
RStrip(s) == IF s # <<>> /\ s[Len(s)] = " " THEN RStrip(SubSeq(s, 1, Len(s) - 1)) ELSE s

Strip(s) == RStrip(LStrip(s))

\* str.split(c) for a one-character separator: a sequence of strings
RECURSIVE Split(_, _)
Split(s, c) ==
    LET i == Find(s, c, 1)
    IN  IF i = 0 THEN <<s>>
        ELSE <<SubSeq(s, 1, i - 1)>> \o Split(SubSeq(s, i + 1, Len(s)), c)

---------------------------------------------------------------------------
(* Python dict: insertion-ordered sequence of [k, v].                      *)

DictHas(d, k) == \E i \in DOMAIN d : d[i].k = k

DictIndex(d, k) == CHOOSE i \in DOMAIN d : d[i].k = k

\* d[k]
DictGet(d, k) == d[DictIndex(d, k)].v

\* d[k] = v : an existing key keeps its place, a new key goes last
DictSet(d, k, v) ==
    IF DictHas(d, k)
    THEN [d EXCEPT ![DictIndex(d, k)] = [k |-> k, v |-> v]]
    ELSE Append(d, [k |-> k, v |-> v])

DictKeys(d) == [i \in DOMAIN d |-> d[i].k]

---------------------------------------------------------------------------
(* urllib.parse.urlparse and urlunparse, as the scripts call them.         *)

SchemeChars == Range(LOWER) \cup Range(UPPER) \cup
               {"0","1","2","3","4","5","6","7","8","9","+","-","."}

\* urlsplit's scheme: the text before the first ':' when it is a scheme name
SplitScheme(url) ==
    LET i == Find(url, ":", 1)
    IN  IF i > 1 /\ (url[1] \in Range(LOWER) \cup Range(UPPER))
              /\ \A j \in 1..(i - 1) : url[j] \in SchemeChars
        THEN [scheme |-> Lower(SubSeq(url, 1, i - 1)), rest |-> SubSeq(url, i + 1, Len(url))]
        ELSE [scheme |-> <<>>, rest |-> url]

\* _splitnetloc: after '//' up to the first of '/', '?', '#'
SplitNetloc(rest) ==
    IF StartsWith(rest, <<"/", "/">>)
    THEN LET ends == {i \in 3..Len(rest) : rest[i] \in {"/", "?", "#"}}
             delim == IF ends = {} THEN Len(rest) + 1
                      ELSE CHOOSE i \in ends : \A j \in ends : i <= j
         IN  [netloc |-> SubSeq(rest, 3, delim - 1), rest |-> SubSeq(rest, delim, Len(rest))]
    ELSE [netloc |-> <<>>, rest |-> rest]

\* url.split(c, 1): [head, tail], tail empty when c is absent
SplitOnce(s, c) ==
    LET i == Find(s, c, 1)
    IN  IF i = 0 THEN [head |-> s, tail |-> <<>>]
        ELSE [head |-> SubSeq(s, 1, i - 1), tail |-> SubSeq(s, i + 1, Len(s))]

\* _splitparams: the ';' parameters of the last path segment
SplitParams(path) ==
    LET slash == RFind(path, "/")
        i == Find(path, ";", IF slash = 0 THEN 1 ELSE slash)
    IN  IF i = 0 THEN [path |-> path, params |-> <<>>]
        ELSE [path |-> SubSeq(path, 1, i - 1), params |-> SubSeq(path, i + 1, Len(path))]

urlparse(url) ==
    LET s == SplitScheme(url)
        n == SplitNetloc(s.rest)
        f == SplitOnce(n.rest, "#")
        q == SplitOnce(f.head, "?")
        p == SplitParams(q.head)
    IN  [scheme |-> s.scheme, netloc |-> n.netloc, path |-> p.path,
         params |-> p.params, query |-> q.tail, fragment |-> f.tail]

urlunparse(scheme, netloc, path, params, query, fragment) ==
    LET u1 == IF params # <<>> THEN path \o <<";">> \o params ELSE path
        u2 == IF netloc # <<>> \/ (scheme # <<>> /\ ~StartsWith(u1, <<"/", "/">>))
              THEN <<"/", "/">> \o netloc \o
                   (IF u1 # <<>> /\ u1[1] # "/" THEN <<"/">> \o u1 ELSE u1)
              ELSE u1
        u3 == IF scheme # <<>> THEN scheme \o <<":">> \o u2 ELSE u2
        u4 == IF query # <<>> THEN u3 \o <<"?">> \o query ELSE u3
    IN  IF fragment # <<>> THEN u4 \o <<"#">> \o fragment ELSE u4

---------------------------------------------------------------------------
(* lib/cache_buster.py                                                     *)

\* string.ascii_letters, cut to three letters
ascii_letters == <<"a", "b", "c">>

\* get_unique_cache_buster(length=5)
DefaultLength == 5

TEST_HEADERS == <<
    <<"O","r","i","g","i","n">>,
    <<"U","s","e","r","-","A","g","e","n","t">>,
    <<"X","-","F","o","r","w","a","r","d","e","d","-","H","o","s","t">>,
    <<"X","-","F","o","r","w","a","r","d","e","d","-","F","o","r">>,
    <<"X","-","F","o","r","w","a","r","d","e","d","-","P","r","o","t","o">>,
    <<"X","-","M","e","t","h","o","d","-","O","v","e","r","r","i","d","e">>,
    <<"X","-","F","o","r","w","a","r","d","e","d","-","S","c","h","e","m","e">> >>

RECURSIVE Pow(_, _)
Pow(b, e) == IF e = 0 THEN 1 ELSE b * Pow(b, e - 1)

\* the weight of each letter position of a drawn string
LetterWeight == [k \in 0..(DefaultLength - 1) |-> Pow(Len(ascii_letters), k)]

\* random.choice(string.ascii_letters), the i-th draw of the generator: the
\* draws of successive 5-letter strings run through all the strings and
\* then repeat
random_choice(i) ==
    ascii_letters[(((i \div DefaultLength) \div LetterWeight[i % DefaultLength])
                   % Len(ascii_letters)) + 1]

\* The CacheBuster state the methods read and write: the ledger, the
\* generator and the history of issued tokens.
CBState(cb, r, out) == [cb |-> cb, rng |-> r, issued |-> out]

generate_random_string(r, length) ==
    [str |-> [i \in 1..length |-> random_choice(r + i - 1)], rng |-> r + length]

\* the loop of get_unique_cache_buster: roll while the candidate is in the
\* ledger or empty
RECURSIVE Reroll(_, _, _, _)
Reroll(cb, cache_buster, r, length) ==
    IF cache_buster \in Range(cb) \/ cache_buster = <<>>
    THEN LET g == generate_random_string(r, length)
         IN  Reroll(cb, g.str, g.rng, length)
    ELSE [tok |-> cache_buster, rng |-> r]

\* a variant that forgets the ledger check
Reroll_NoLedger(cb, cache_buster, r, length) ==
    IF cache_buster = <<>>
    THEN LET g == generate_random_string(r, length)
         IN  [tok |-> g.str, rng |-> g.rng]
    ELSE [tok |-> cache_buster, rng |-> r]

RerollLoop(cb, cache_buster, r, length) == Reroll(cb, cache_buster, r, length)

\* self._cache_busters.append(cache_buster); return cache_buster
Issue(st, got) ==
    [tok |-> got.tok,
     st  |-> CBState(Append(st.cb, got.tok), got.rng, Append(st.issued, got.tok))]

get_unique_cache_buster(st, length) ==
    Issue(st, RerollLoop(st.cb, <<>>, st.rng, length))

\* the value cache_bust_header builds from the token t for the lower-cased
\* header name h
HeaderValue(t, site, h, value) ==
    IF h = <<"u","s","e","r","-","a","g","e","n","t">>
    THEN value \o <<" ">> \o t
    ELSE IF h = <<"a","c","c","e","p","t","-","e","n","c","o","d","i","n","g">>
    THEN (IF value = <<>> THEN t ELSE value \o <<",", " ">> \o t)
    ELSE IF h = <<"a","c","c","e","p","t">>
    THEN <<"*","/","*",";","q","=","0",".","8",",">> \o t
    ELSE IF h = <<"a","c","c","e","p","t","-","l","a","n","g","u","a","g","e">>
    THEN <<"i","t","-","I","T",",","i","t",";","q","=","0",".","9",",">> \o t
    ELSE IF h = <<"o","r","i","g","i","n">>
    THEN <<"h","t","t","p","s",":","/","/">> \o site \o <<"/">> \o t
    ELSE IF h = <<"x","-","f","o","r","w","a","r","d","e","d","-","s","c","h","e","m","e">>
            \/ (Contains(h, <<"x","-">>)
                /\ Contains(h, <<"f","o","r","w","a","r","d","e","d","-","p","r","o","t","o">>))
    THEN <<"h","t","t","p">> \o t
    ELSE IF Contains(h, <<"x","-">>) /\ Contains(h, <<"m","e","t","h","o","d">>)
    THEN <<"G","E","T">> \o t
    ELSE IF (Contains(h, <<"x","-">>)
             /\ (Contains(h, <<"f","o","r","w","a","r","d","e","d">>)
                 \/ Contains(h, <<"-","u","r","l">>)))
            \/ h = <<"f","o","r","w","a","r","d","e","d">>
    THEN t \o <<".">> \o site
    ELSE t

WithHeaderValue(g, site, h, value) ==
    [val |-> HeaderValue(g.tok, site, h, value), st |-> g.st]

cache_bust_header(st, site, header, value) ==
    WithHeaderValue(get_unique_cache_buster(st, DefaultLength), site, Lower(header), value)

\* the cookies of cache_bust_cookies once the token is drawn
BustedCookies(g, cookies, cache_bust_all) ==
    [cookies |->
        DictSet(IF cache_bust_all
                THEN [i \in DOMAIN cookies |->
                        [k |-> cookies[i].k, v |-> cookies[i].v \o <<",">> \o g.tok]]
                ELSE cookies,
                g.tok, g.tok),
     st |-> g.st]

cache_bust_cookies(st, cookies, cache_bust_all) ==
    BustedCookies(get_unique_cache_buster(st, DefaultLength), cookies, cache_bust_all)

\* the URL of cache_bust_query once the token is drawn and the URL parsed
BustedQuery(g, parsed) ==
    [url |-> urlunparse(parsed.scheme, parsed.netloc, parsed.path, parsed.params,
                        parsed.query \o (IF parsed.query # <<>> THEN <<"&">> ELSE <<>>)
                            \o g.tok \o <<"=">> \o g.tok,
                        parsed.fragment),
     st |-> g.st]

cache_bust_query(st, url) ==
    BustedQuery(get_unique_cache_buster(st, DefaultLength), urlparse(url))

\* a variant that puts a '/' before the token whatever the path ends with
BustedPath_AlwaysSlash(g, parsed) ==
    [url |-> urlunparse(parsed.scheme, parsed.netloc,
                        parsed.path \o <<"/">> \o g.tok,
                        parsed.params, parsed.query, parsed.fragment),
     st |-> g.st]

\* the URL of cache_bust_path once the token is drawn and the URL parsed
BustedPath(g, parsed) ==
    [url |-> urlunparse(parsed.scheme, parsed.netloc,
                        IF EndsWith(parsed.path, <<"/">>)
                        THEN parsed.path \o g.tok
                        ELSE parsed.path \o <<"/">> \o g.tok,
                        parsed.params, parsed.query, parsed.fragment),
     st |-> g.st]

cache_bust_path(st, url) ==
    BustedPath(get_unique_cache_buster(st, DefaultLength), urlparse(url))

\* Python's None where a string is expected
None == <<"None">>

\* lower-cased TEST_HEADERS
TEST_HEADERS_LOWER == [i \in DOMAIN TEST_HEADERS |-> Lower(TEST_HEADERS[i])]

\* headers[header] = <the busted value>, and the CacheBuster state after it
SetBusted(d, header, b) == [d |-> DictSet(d, header, b.val), st |-> b.st]

\* one turn of a header loop of cache_bust_request
BustOne(st, d, site, header) ==
    SetBusted(d, header,
              cache_bust_header(st, site, header,
                                IF DictHas(d, header) THEN DictGet(d, header) ELSE <<>>))

\* the loop over TEST_HEADERS of cache_bust_request, from the i-th header on;
\* acc is [d, st]
RECURSIVE BustTestHeaders(_, _, _)
BustTestHeaders(acc, site, i) ==
    IF i > Len(TEST_HEADERS) THEN acc
    ELSE BustTestHeaders(BustOne(acc.st, acc.d, site, TEST_HEADERS[i]), site, i + 1)

\* any(header in h.lower() for h in self.TEST_HEADERS)
InTestHeaders(header) ==
    \E i \in DOMAIN TEST_HEADERS_LOWER : Contains(TEST_HEADERS_LOWER[i], header)

\* one turn of the loop over vary.split(','), header stripped and lower-cased
BustVaryOne(acc, site, header) ==
    IF InTestHeaders(header) \/ header = <<"c","o","o","k","i","e">>
    THEN acc
    ELSE BustOne(acc.st, acc.d, site, header)

\* the loop over vary.split(',') of cache_bust_request, from the i-th name on
RECURSIVE BustVary(_, _, _, _)
BustVary(acc, site, names, i) ==
    IF i > Len(names) THEN acc
    ELSE BustVary(BustVaryOne(acc, site, Lower(Strip(names[i]))), site, names, i + 1)

\* cache_bust_request, step by step; each step gets the results of the
\* steps before it:  p path, q query, h headers, c cookies, v vary
\* a variant that leaves the headers it is given alone and hands back
\* another dict with the new values
CBR_Result_Fresh(hp, headers, cookies, q, c, v, vary) ==
    [url |-> q.url,
     headers |-> IF headers = "cbr_headers" THEN "headers" ELSE "cbr_headers",
     cookies |-> cookies, st |-> v.st,
     heap |-> [[hp EXCEPT ![cookies] = c.cookies]
                  EXCEPT ![IF headers = "cbr_headers" THEN "headers" ELSE "cbr_headers"] = v.d],
     raised |-> (vary = None)]

CBR_Result(hp, headers, cookies, q, c, v, vary) ==
    [url |-> q.url, headers |-> headers, cookies |-> cookies, st |-> v.st,
     heap |-> [[hp EXCEPT ![cookies] = c.cookies] EXCEPT ![headers] = v.d],
     raised |-> (vary = None)]

CBR_Vary(hp, headers, cookies, site, q, h, c, vary) ==
    CBR_Result(hp, headers, cookies, q, c,
               IF vary = None THEN [d |-> h.d, st |-> c.st]
               ELSE BustVary([d |-> h.d, st |-> c.st], site, Split(vary, ","), 1),
               vary)

CBR_Cookies(hp, headers, cookies, site, q, h, vary) ==
    CBR_Vary(hp, headers, cookies, site, q, h,
             cache_bust_cookies(h.st, hp[cookies], TRUE), vary)

CBR_Headers(hp, headers, cookies, site, q, vary) ==
    CBR_Cookies(hp, headers, cookies, site, q,
                BustTestHeaders([d |-> hp[headers], st |-> q.st], site, 1), vary)

CBR_Query(hp, headers, cookies, site, p, vary) ==
    CBR_Headers(hp, headers, cookies, site, cache_bust_query(p.st, p.url), vary)

\* cache_bust_request(url, headers, cookies, vary, path): headers and cookies
\* are references into the heap hp, written in place and handed back;
\* raised is set when vary is None (None has no split)
cache_bust_request(st, hp, url, headers, cookies, vary, path) ==
    CBR_Query(hp, headers, cookies, urlparse(url).netloc,
              IF path THEN cache_bust_path(st, url) ELSE [url |-> url, st |-> st],
              vary)

---------------------------------------------------------------------------
(* lib/h2time.py: H2Request                                                *)

DIGITS == <<"0","1","2","3","4","5","6","7","8","9">>

DigitValue == [c \in Range(DIGITS) |-> (CHOOSE i \in DOMAIN DIGITS : DIGITS[i] = c) - 1]

\* int(text) for a string of digits
RECURSIVE ToInt(_)
ToInt(t) == IF t = <<>> THEN 0
            ELSE 10 * ToInt(SubSeq(t, 1, Len(t) - 1)) + DigitValue[t[Len(t)]]

\* ParseResult.port: the number after the last ':' of the netloc, 0 for None
ParsedPort(netloc) ==
    LET i == RFind(netloc, ":")
        t == SubSeq(netloc, i + 1, Len(netloc))
    IN  IF i = 0 \/ t = <<>> \/ \E j \in DOMAIN t : t[j] \notin Range(DIGITS)
        THEN 0 ELSE ToInt(t)

HTTPS_PORT == 443
HTTP_PORT == 80

\* H2Request.set_url, from the parsed URL:
\* `parsed.port or 443 if self.scheme == 'https' else 80`
RequestOf(method, url, parsed, headers, data) ==
    [method |-> method, url |-> url, scheme |-> parsed.scheme, host |-> parsed.netloc,
     port |-> IF parsed.scheme = <<"h","t","t","p","s">>
              THEN (IF ParsedPort(parsed.netloc) # 0 THEN ParsedPort(parsed.netloc)
                    ELSE HTTPS_PORT)
              ELSE HTTP_PORT,
     path |-> parsed.path, query |-> parsed.query, headers |-> headers, data |-> data]

\* H2Request(method, url, headers): headers is a reference, kept as it is
H2Request(method, url, headers) == RequestOf(method, url, urlparse(url), headers, <<>>)

\* the loop of get_request_headers copying self.headers, from the i-th on
RECURSIVE CopyHeaders(_, _, _)
CopyHeaders(acc, d, i) ==
    IF i > Len(d) THEN acc ELSE CopyHeaders(DictSet(acc, d[i].k, d[i].v), d, i + 1)

PSEUDO_HEADERS == << <<":","m","e","t","h","o","d">>,
                     <<":","a","u","t","h","o","r","i","t","y">>,
                     <<":","s","c","h","e","m","e">>,
                     <<":","p","a","t","h">> >>

\* a variant that copies self.headers first and sets the pseudo-headers last
get_request_headers_Last(req, hp) ==
    CopyHeaders(hp[req.headers],
                << [k |-> PSEUDO_HEADERS[1], v |-> req.method],
                   [k |-> PSEUDO_HEADERS[2], v |-> req.host],
                   [k |-> PSEUDO_HEADERS[3], v |-> req.scheme],
                   [k |-> PSEUDO_HEADERS[4], v |-> <<"/">>] >>, 1)

\* H2Request.get_request_headers; hp is the heap the headers reference reads
get_request_headers(req, hp) ==
    CopyHeaders(<< [k |-> <<":","m","e","t","h","o","d">>, v |-> req.method],
                   [k |-> <<":","a","u","t","h","o","r","i","t","y">>, v |-> req.host],
                   [k |-> <<":","s","c","h","e","m","e">>, v |-> req.scheme],
                   [k |-> <<":","p","a","t","h">>,
                    v |-> IF (IF req.query # <<>> THEN req.path \o <<"?">> \o req.query
                              ELSE req.path) # <<>>
                          THEN (IF req.query # <<>> THEN req.path \o <<"?">> \o req.query
                                ELSE req.path)
                          ELSE <<"/">>] >>,
                hp[req.headers], 1)

---------------------------------------------------------------------------
(* lib/h2time.py: H2Time.  An engine E is the record of the instance's     *)
(* fields: connection_open, socket, connection, sent_streams.              *)
(*   socket:     "none" (None), "raw" (TCP socket, TLS failed), "open",    *)
(*               "dead" (the peer reset it: every later call raises),      *)
(*               "closed" (socket.close() was called)                      *)
(*   connection: the h2 connection object: state "none" (None), "open" or  *)
(*               "closed", highest the highest stream id used, out the     *)
(*               frames waiting in data_to_send()                          *)

\* 'response_time': None
NoTime == -1

\* 'response_headers': None, told apart from every dict
NoHeaders == << [k |-> None, v |-> None] >>

Frame(type, stream_id, headers) == [type |-> type, stream_id |-> stream_id, headers |-> headers]

NoConnection == [state |-> "none", highest |-> -1, out |-> <<>>]

\* h2.connection.H2Connection() followed by initiate_connection()
NewConnection ==
    [state |-> "open", highest |-> -1,
     out |-> <<Frame("PREFACE", 0, <<>>), Frame("SETTINGS", 0, <<>>)>>]

\* H2Time.__init__
NewEngine ==
    [connection_open |-> FALSE, socket |-> "none", connection |-> NoConnection,
     sent_streams |-> <<>>]

\* What a call returns: the engine after it, whether it raised, and the
\* bytes it wrote to the socket (a sequence of socket writes, each a
\* sequence of frames).
Ret(E, raised, wrote) == [E |-> E, raised |-> raised, wrote |-> wrote]

\* send_all(); fail: socket.sendall raises (a timeout, a broken pipe).
\* data_to_send() empties the buffer before sendall is tried.
send_all(E, fail) ==
    IF E.connection_open
    THEN Ret([E EXCEPT !.connection.out = <<>>], fail,
             IF fail THEN <<>> ELSE <<E.connection.out>>)
    ELSE Ret(E, FALSE, <<>>)

\* connect(); how: "ok", "tcp_fail" (create_connection raises) or
\* "tls_fail" (wrap_socket raises)
ConnectSent(r) == Ret([r.E EXCEPT !.connection_open = TRUE], FALSE, r.wrote)

connect(E, how) ==
    IF E.connection_open THEN Ret(E, FALSE, <<>>)
    ELSE IF how = "tcp_fail" THEN Ret(E, TRUE, <<>>)
    ELSE IF how = "tls_fail" THEN Ret([E EXCEPT !.socket = "raw"], TRUE, <<>>)
    ELSE ConnectSent(send_all([E EXCEPT !.socket = "open", !.connection = NewConnection],
                             FALSE))

\* close(), after close_connection(): send_all, socket.close(),
\* connection_open = False
CloseSent(r) ==
    IF r.raised THEN r
    ELSE Ret([r.E EXCEPT !.socket = "closed", !.connection_open = FALSE], FALSE, r.wrote)

\* close(); fail: socket.sendall raises.  With no connection object,
\* close_connection() raises (None has no such attribute).
close(E, fail) ==
    IF E.connection.state = "none" THEN Ret(E, TRUE, <<>>)
    ELSE CloseSent(send_all([E EXCEPT !.connection.state = "closed",
                                    !.connection.out = Append(@, Frame("GOAWAY", 0, <<>>))],
                           fail))

\* the entry send_request makes in sent_streams; epoch, order and listed
\* are history: the pair during which, and the rank at which, the response
\* was recorded, and the header list the ResponseReceived event carried
FreshStream ==
    [response_received |-> FALSE, response_headers |-> NoHeaders, response_time |-> NoTime,
     response_data |-> <<>>, epoch |-> 0, order |-> 0, listed |-> <<>>]

\* a variant that keeps the entry of a stream id used before
PutStream_KeepOld(ss, stream_id, entry) ==
    IF DictHas(ss, stream_id) THEN ss ELSE DictSet(ss, stream_id, entry)

\* sent_streams[stream_id] = fresh entry
PutStream(ss, stream_id, entry) == DictSet(ss, stream_id, entry)

\* connection.get_next_available_stream_id()
NextStreamId(c) == IF c.highest < 0 THEN 1 ELSE c.highest + 2

\* a variant of send_request that writes the frame to the socket at once
send_request_Flushing(E, headers) ==
    IF E.connection.state # "open" THEN Ret(E, TRUE, <<>>)
    ELSE Ret([E EXCEPT
                !.connection.out = <<>>,
                !.connection.highest = NextStreamId(E.connection),
                !.sent_streams = PutStream(@, NextStreamId(E.connection), FreshStream)],
             FALSE,
             <<Append(E.connection.out, Frame("HEADERS", NextStreamId(E.connection), headers))>>)

\* send_request(headers): raises when the h2 connection is closed; the
\* stream id it returns is E.connection.highest afterwards
send_request(E, headers) ==
    IF E.connection.state # "open" THEN Ret(E, TRUE, <<>>)
    ELSE Ret([E EXCEPT
                !.connection.out = Append(@, Frame("HEADERS", NextStreamId(E.connection), headers)),
                !.connection.highest = NextStreamId(E.connection),
                !.sent_streams = PutStream(@, NextStreamId(E.connection), FreshStream)],
             FALSE, <<>>)

\* The first half of send_request_pair: the two send_request calls and
\* send_all.  ops lists, in order, what was done: ser (a HEADERS frame put
\* into the h2 connection's buffer) and write (a socket write, with the
\* frames it carried).
Ser(stream_id) == [op |-> "ser", stream_id |-> stream_id, frames |-> <<>>]

Writes(wrote) == [i \in DOMAIN wrote |-> [op |-> "write", stream_id |-> 0, frames |-> wrote[i]]]

Recv == [op |-> "recv", stream_id |-> 0, frames |-> <<>>]

PairSent(E, raised, stream_id1, stream_id2, ops) ==
    [E |-> E, raised |-> raised, stream_id1 |-> stream_id1, stream_id2 |-> stream_id2,
     ops |-> ops]

PairFlushed(r, stream_id1, stream_id2, ops) ==
    PairSent(r.E, r.raised, stream_id1, stream_id2, ops \o Writes(r.wrote))

PairSecond(r2, stream_id1, ops, sendFail) ==
    IF r2.raised THEN PairSent(r2.E, TRUE, stream_id1, 0, ops)
    ELSE PairFlushed(send_all(r2.E, sendFail), stream_id1, r2.E.connection.highest,
                     ops \o <<Ser(r2.E.connection.highest)>> \o Writes(r2.wrote))

PairFirst(r1, headers2, sendFail) ==
    IF r1.raised THEN PairSent(r1.E, TRUE, 0, 0, <<>>)
    ELSE PairSecond(send_request(r1.E, headers2), r1.E.connection.highest,
                    <<Ser(r1.E.connection.highest)>> \o Writes(r1.wrote), sendFail)

SendPair(E, headers1, headers2, sendFail) ==
    PairFirst(send_request(E, headers1), headers2, sendFail)

\* `k in headers` in the header merge: k is a bytes object (h2 hands the
\* header names over undecoded, the code decodes them itself) and the keys
\* of headers are str, and in Python bytes never equal str
BytesKeyIn(headers, k) == FALSE

\* the header merge of the ResponseReceived branch, from the i-th header on
RECURSIVE MergeHeaders(_, _, _)
MergeHeaders(headers, list, i) ==
    IF i > Len(list) THEN headers
    ELSE MergeHeaders(
            IF BytesKeyIn(headers, list[i].k)
            THEN DictSet(headers, list[i].k, DictGet(headers, list[i].k) \o <<",", " ">> \o list[i].v)
            ELSE DictSet(headers, list[i].k, list[i].v),
            list, i + 1)

\* An event h2 hands to the pump: type, stream_id, headers (the response's
\* header list), data (a body chunk: "txt", or "bin" that is no UTF-8),
\* bad (a header that cannot be decoded) and dt, by how much the wall clock
\* moved since it was last read.
Event(type, stream_id, headers, data, bad, dt) ==
    [type |-> type, stream_id |-> stream_id, headers |-> headers, data |-> data,
     bad |-> bad, dt |-> dt]

\* The state of one pass of the for loop over the events: the engine, the
\* wall clock, the number of responses recorded, the pair being timed, and
\* how the pass ended: "go" (next event), "none" (close() and return None)
\* or "raise" (close() itself raised); skipped counts the events passed
\* over because their stream id is not in sent_streams.
Pump(E, clock, order, pair, status, wrote) ==
    [E |-> E, clock |-> clock, order |-> order, pair |-> pair, status |-> status,
     wrote |-> wrote, skipped |-> 0]

\* the except branch of the event loop: self.close(); return None
PumpExcept(P, r) ==
    [P EXCEPT !.E = r.E, !.status = IF r.raised THEN "raise" ELSE "none",
              !.wrote = @ \o r.wrote]

\* a variant in which an event on an unknown stream raises
Skip_Raising(P, closeFail) == PumpExcept(P, close(P.E, closeFail))

\* `stream ID not found`: logger.error and continue
Skip(P, closeFail) == [P EXCEPT !.skipped = @ + 1]

\* sent_streams[stream_id] after a ResponseReceived event; time_ns is the
\* wall clock read by time.time_ns()
StreamResponded(entry, listed, time_ns, pair, order) ==
    [entry EXCEPT !.response_headers = MergeHeaders(<<>>, listed, 1),
                  !.response_received = TRUE,
                  !.response_time = time_ns, !.epoch = pair, !.order = order,
                  !.listed = listed]

\* one event of the for loop; closeFail: sendall raises inside close()
ProcessEvent(P, ev, closeFail) ==
    IF ev.type = "RemoteSettingsChanged"
    THEN [P EXCEPT !.E.connection.out = Append(@, Frame("SETTINGS", 0, <<>>))]
    ELSE IF ev.type = "ResponseReceived"
    THEN IF ~DictHas(P.E.sent_streams, ev.stream_id) THEN Skip(P, closeFail)
         ELSE IF ev.bad THEN PumpExcept(P, close(P.E, closeFail))
         ELSE [P EXCEPT
                 !.E.sent_streams =
                     DictSet(@, ev.stream_id,
                             StreamResponded(DictGet(@, ev.stream_id), ev.headers,
                                             P.clock + ev.dt, P.pair, P.order + 1)),
                 !.clock = P.clock + ev.dt,
                 !.order = P.order + 1]
    ELSE IF ev.type = "DataReceived"
    THEN IF ~DictHas(P.E.sent_streams, ev.stream_id) THEN Skip(P, closeFail)
         ELSE [P EXCEPT
                 !.E.connection.out = Append(@, Frame("WINDOW_UPDATE", ev.stream_id, <<>>)),
                 !.E.sent_streams =
                     DictSet(@, ev.stream_id,
                             [DictGet(@, ev.stream_id) EXCEPT !.response_data = Append(@, ev.data)])]
    ELSE P

\* for event in events, from the i-th on
RECURSIVE ProcessEvents(_, _, _, _)
ProcessEvents(P, events, i, closeFail) ==
    IF i > Len(events) \/ P.status # "go" THEN P
    ELSE ProcessEvents(ProcessEvent(P, events[i], closeFail), events, i + 1, closeFail)

\* the send_all() that ends a pass of the pump
PumpSent(P, r) ==
    [P EXCEPT !.E = r.E, !.status = IF r.raised THEN "raise" ELSE "go",
              !.wrote = @ \o r.wrote]

PumpFlush(P, sendFail) ==
    IF P.status # "go" THEN P ELSE PumpSent(P, send_all(P.E, sendFail))

\* one pass of the while loop of send_request_pair on the data of one recv
PumpPass(E, clock, order, pair, events, sendFail, closeFail) ==
    PumpFlush(ProcessEvents(Pump(E, clock, order, pair, "go", <<>>), events, 1, closeFail),
              sendFail)

\* 1_000_000 nanoseconds in a millisecond
NS_PER_MS == 1000000

\* (response_time2 - response_time1) / 1_000_000, as a fraction
TimeDiff(t1, t2) == [num |-> t2 - t1, den |-> NS_PER_MS]

\* both responses of the pair are in
BothReceived(E, stream_id1, stream_id2) ==
    /\ DictGet(E.sent_streams, stream_id1).response_received
    /\ DictGet(E.sent_streams, stream_id2).response_received

\* bytes.decode() raises on a body that is no UTF-8
Decodable(data) == \A i \in DOMAIN data : data[i] # "bin"

\* the tuple send_request_pair returns, with the history of the two stream
\* entries it was built from
Sample(e1, e2, pair) ==
    [time_diff |-> TimeDiff(e1.response_time, e2.response_time),
     response_headers1 |-> e1.response_headers,
     response_headers2 |-> e2.response_headers,
     response_body1 |-> e1.response_data,
     response_body2 |-> e2.response_data,
     pair |-> pair, t1 |-> e1.response_time, t2 |-> e2.response_time,
     epoch1 |-> e1.epoch, epoch2 |-> e2.epoch, order1 |-> e1.order, order2 |-> e2.order]

---------------------------------------------------------------------------
(* The CacheBuster on its own: any sequence of calls of its public         *)
(* methods, on any instance; get_unique_cache_buster and cache_bust_query  *)
(* find the generator in any of a few states, so that a drawn string can   *)
(* be one the ledger holds.                                                *)

\* calls made in one run of the CacheBuster specification
MaxCalls == 3

\* generator states a call may find: 0..MaxSeed strings already drawn
MaxSeed == 1

Instances == {1, 2}

Seeds == {DefaultLength * k : k \in 0..MaxSeed}

SITE == <<"t">>

URL_ROOT == <<"h","t","t","p","s",":","/","/","t","/">>
URL_PAGE == <<"h","t","t","p","s",":","/","/","t","/","p","?","x","=","1">>

\* a URL with ';' parameters and a fragment, and one with no path at all
URL_PARAMS == <<"h","t","t","p","s",":","/","/","t","/","a",";","k","#","f">>
URL_BARE == <<"h","t","t","p","s",":","/","/","t">>

CBUrls == {URL_ROOT, URL_PAGE, URL_PARAMS, URL_BARE}

\* the scripts' `headers` dict, cut to two entries
USER_AGENT == <<"U","A">>

InitHeaders == <<
    [k |-> <<"U","s","e","r","-","A","g","e","n","t">>, v |-> USER_AGENT],
    [k |-> <<"A","c","c","e","p","t">>, v |-> <<"*","/","*">>] >>

\* the heap at start: the scripts' headers dict and the two default
\* arguments of cache_bust_request (headers={}, cookies={})
\* a headers dict whose keys include a pseudo-header name, after a regular
\* header: H2Request takes any dict
OwnHeaders == <<
    [k |-> <<"A","c","c","e","p","t">>, v |-> <<"*","/","*">>],
    [k |-> <<":","p","a","t","h">>, v |-> <<"/","x">>],
    [k |-> <<"U","s","e","r","-","A","g","e","n","t">>, v |-> USER_AGENT] >>

InitHeap == [headers |-> InitHeaders, cbr_headers |-> <<>>, cbr_cookies |-> <<>>,
             own_headers |-> OwnHeaders]

\* Vary values of responses: none, a header outside TEST_HEADERS, and a
\* header whose name is part of a TEST_HEADERS name
CBVaryValues == {<<>>, <<"A","c","c","e","p","t">>, <<"H","o","s","t">>}

GET == <<"G","E","T">>

\* run_attack's frame and its caller's position:
\*   pc: "new" (H2Time constructed), "loop" (top of the for loop), "pump"
\*       (the while loop of send_request_pair), "returned" / "raised"
\*       (run_attack over, the with block not yet left), "exited"
\*   error: an exception is on its way to the caller of the with block
RunFrame(pc, n, pair, results, stream_id1, stream_id2, error) ==
    [pc |-> pc, num_request_pairs |-> n, pair |-> pair, results |-> results,
     stream_id1 |-> stream_id1, stream_id2 |-> stream_id2, error |-> error]

NetState(clock, order, events) ==
    [clock |-> clock, order |-> order, events |-> events, skipped |-> 0]

\* what the last CacheBuster call was and gave: the method, the instance,
\* the text returned, the url, vary and path arguments (cache_bust_request
\* only) and the number of tokens issued before the call; for
\* cache_bust_request also the headers object given and the headers and
\* cookies objects returned
CBOut(op, self, text, url, vary, path, before) ==
    [op |-> op, self |-> self, text |-> text, url |-> url, vary |-> vary,
     path |-> path, before |-> before,
     given |-> "none", headers |-> "none", cookies |-> "none"]

\* no H2Time at work
H2Idle ==
    /\ h2time = NewEngine
    /\ request1 = H2Request(GET, URL_PAGE, "headers")
    /\ request2 = H2Request(GET, URL_ROOT, "headers")
    /\ run = RunFrame("idle", 0, 0, <<>>, 0, 0, FALSE)
    /\ net = NetState(0, 0, 0)
    /\ trace = <<>>
    /\ pairLog = <<>>

\* main()'s position and locals
Ctl(pc, script, num_requests, queue, url, vary, mode, phase, i, url1, url2, attack_url, fr, rf) ==
    [pc |-> pc, script |-> script, num_requests |-> num_requests, queue |-> queue,
     url |-> url, vary |-> vary, mode |-> mode, phase |-> phase, i |-> i,
     url1 |-> url1, url2 |-> url2, attack_url |-> attack_url,
     following_redirects |-> fr, redirects_followed |-> rf]

NoBuckets == [randomized |-> <<>>, fixed |-> <<>>]

NoStatistics == [errors |-> <<>>, tested |-> FALSE, saved |-> FALSE]

\* nothing on the wire yet: rounds run for the current pair, whether the
\* pair has a sample, the header lists last transmitted, request 2 as first
\* transmitted in this phase, and where the last retry after a redirect was
\* told to go and where it went
NoRetry == [told1 |-> None, went1 |-> None, told2 |-> None, went2 |-> None]

NoWire == [rounds |-> 0, recorded |-> FALSE, last |-> <<>>, first2 |-> NoHeaders,
           told |-> <<None, None>>, retry |-> NoRetry, raised |-> 0, entries |-> 0]

\* no call on an Analysis object yet
AnIdle == an = [op |-> "none"]

\* no experiment script running
CtlIdle ==
    /\ ctl = Ctl("idle", "none", 0, <<>>, None, <<>>, 0, "none", 0, None, None, None, FALSE, 0)
    /\ sent_requests = NoBuckets
    /\ statistics = NoStatistics
    /\ wireLog = NoWire
    /\ urlLog = <<>>
    /\ faults = 0

\* no CacheBuster call under way
CBIdle ==
    /\ _cache_busters = <<>>
    /\ rng = 0
    /\ issued = <<>>
    /\ heap = InitHeap
    /\ cbOut = CBOut("none", 0, <<>>, <<>>, <<>>, FALSE, 0)
    /\ cbCalls = 0

CBInit ==
    /\ H2Idle
    /\ CtlIdle
    /\ AnIdle
    /\ _cache_busters = <<>>
    /\ rng = 0
    /\ issued = <<>>
    /\ heap = InitHeap
    /\ cbOut = CBOut("none", 0, <<>>, <<>>, <<>>, FALSE, 0)
    /\ cbCalls = 0

CBNow(r) == CBState(_cache_busters, r, issued)

CBCommit(st, op, self, text) ==
    /\ _cache_busters' = st.cb
    /\ rng' = st.rng
    /\ issued' = st.issued
    /\ cbOut' = CBOut(op, self, text, <<>>, <<>>, FALSE, Len(issued))
    /\ cbCalls' = cbCalls + 1

CBGetUnique(self) ==
    /\ cbCalls < MaxCalls
    /\ \E r \in Seeds :
        LET g == get_unique_cache_buster(CBNow(r), DefaultLength)
        IN  CBCommit(g.st, "get_unique_cache_buster", self, g.tok)
    /\ UNCHANGED heap
    /\ UNCHANGED <<h2Vars, ctlVars, anVars>>

CBQuery(self) ==
    /\ cbCalls < MaxCalls
    /\ \E r \in Seeds, url \in CBUrls :
        LET g == cache_bust_query(CBNow(r), url)
        IN  CBCommit(g.st, "cache_bust_query", self, g.url)
    /\ UNCHANGED heap
    /\ UNCHANGED <<h2Vars, ctlVars, anVars>>

CBPath(self) ==
    /\ cbCalls < MaxCalls
    /\ \E url \in CBUrls :
        LET g == cache_bust_path(CBNow(rng), url)
        IN  CBCommit(g.st, "cache_bust_path", self, g.url)
    /\ UNCHANGED heap
    /\ UNCHANGED <<h2Vars, ctlVars, anVars>>

CBHeader(self) ==
    /\ cbCalls < MaxCalls
    /\ \E i \in DOMAIN TEST_HEADERS :
        LET g == cache_bust_header(CBNow(rng), SITE, TEST_HEADERS[i], USER_AGENT)
        IN  CBCommit(g.st, "cache_bust_header", self, g.val)
    /\ UNCHANGED heap
    /\ UNCHANGED <<h2Vars, ctlVars, anVars>>

CBCookies(self) ==
    /\ cbCalls < MaxCalls
    /\ LET g == cache_bust_cookies(CBNow(rng), heap.cbr_cookies, TRUE)
        IN  /\ CBCommit(g.st, "cache_bust_cookies", self, <<>>)
            /\ heap' = [heap EXCEPT !.cbr_cookies = g.cookies]
    /\ UNCHANGED <<h2Vars, ctlVars, anVars>>

\* cache_bust_request(url, headers, vary=vary, path=path): the cookies are
\* the default argument
CBRequestOn(self, url, headers, vary, path) ==
    /\ cbCalls < MaxCalls
    /\ \E g \in {cache_bust_request(CBNow(rng), heap, url, headers, "cbr_cookies", vary, path)} :
            /\ _cache_busters' = g.st.cb
            /\ rng' = g.st.rng
            /\ issued' = g.st.issued
            /\ cbOut' = [CBOut("cache_bust_request", self, g.url, url, vary, path,
                               Len(issued))
                            EXCEPT !.given = headers, !.headers = g.headers,
                                   !.cookies = g.cookies]
            /\ cbCalls' = cbCalls + 1
            /\ heap' = g.heap
    /\ UNCHANGED <<h2Vars, ctlVars, anVars>>

\* a call with the scripts' headers dict, or one with the default headers
CBRequest(self) ==
    \/ \E url \in CBUrls, vary \in CBVaryValues, path \in BOOLEAN :
            CBRequestOn(self, url, "headers", vary, path)
    \/ CBRequestOn(self, URL_ROOT, "cbr_headers", <<>>, FALSE)

CBNext ==
    \E self \in Instances :
        \/ CBGetUnique(self)
        \/ CBQuery(self)
        \/ CBPath(self)
        \/ CBHeader(self)
        \/ CBCookies(self)
        \/ CBRequest(self)

SpecCB == CBInit /\ [][CBNext]_vars

\* C1: every token get_unique_cache_buster returned, through whatever method
\* and instance, is non-empty and differs from every other token returned;
\* the ledger holds exactly the tokens issued, one entry each, and a step
\* only appends to it, one entry per token the step issued.
C1_UniqueTokens ==
    /\ [](/\ \A i \in DOMAIN issued : issued[i] # <<>>
          /\ \A i, j \in DOMAIN issued : i # j => issued[i] # issued[j]
          /\ _cache_busters = issued)
    /\ [][/\ Len(_cache_busters') >= Len(_cache_busters)
          /\ SubSeq(_cache_busters', 1, Len(_cache_busters)) = _cache_busters
          /\ Len(_cache_busters') - Len(_cache_busters) = Len(issued') - Len(issued)]_vars

\* C1 witness: three or more tokens are out and the last call, a direct
\* get_unique_cache_buster, drew at least one string the ledger already
\* held before it found a fresh one.
C1_Witness ==
    /\ Len(issued) >= 3
    /\ cbOut.op = "get_unique_cache_buster"
    /\ rng > (MaxSeed + 1) * DefaultLength

\* the header names a Vary value lists, as cache_bust_request reads them
VaryNames(vary) ==
    LET names == Split(vary, ",")
    IN  {Lower(Strip(names[i])) : i \in DOMAIN names} \ {<<>>}

\* the tokens issued during the last CacheBuster call
IssuedByCall == {issued[i] : i \in (cbOut.before + 1)..Len(issued)}

\* C14: after cache_bust_request(url, headers, cookies, vary, path), every
\* header name listed in vary other than 'cookie' is a key of the returned
\* header map (whatever its case) with a value that holds a token issued
\* during this call.
C14_VaryHeadersAreBusted ==
    cbOut.op = "cache_bust_request" =>
        \A header \in VaryNames(cbOut.vary) \ {<<"c","o","o","k","i","e">>} :
            \E i \in DOMAIN heap.headers :
                /\ Lower(heap.headers[i].k) = header
                /\ \E t \in IssuedByCall : Contains(heap.headers[i].v, t)

\* C23: the URL cache_bust_request returns has the scheme, netloc, params
\* and fragment of the input URL; its query is the input query followed by
\* one parameter <tok>=<tok> of a token issued during the call, after a '&'
\* only when the input query is not empty; its path is the input path,
\* unless path is set, and then the input path followed by one segment, a
\* token issued during the call, with a single '/' between them; and the
\* URL returned differs from the input.
C23_BustedUrlKeepsTheRest ==
    cbOut.op = "cache_bust_request" =>
        LET old == urlparse(cbOut.url)
            new == urlparse(cbOut.text)
        IN  /\ new.scheme = old.scheme
            /\ new.netloc = old.netloc
            /\ new.params = old.params
            /\ new.fragment = old.fragment
            /\ \E t \in IssuedByCall :
                    new.query = old.query \o (IF old.query # <<>> THEN <<"&">> ELSE <<>>)
                                    \o t \o <<"=">> \o t
            /\ ~cbOut.path => new.path = old.path
            /\ cbOut.path =>
                    \E t \in IssuedByCall :
                        new.path = (IF EndsWith(old.path, <<"/">>) THEN old.path
                                    ELSE old.path \o <<"/">>) \o t
            /\ cbOut.text # cbOut.url

\* C23 witness: cache_bust_request busted the path of a URL that ends with
\* '/' and the query of a URL that had none.
C23_Witness ==
    /\ cbOut.op = "cache_bust_request"
    /\ cbOut.path
    /\ cbOut.url = URL_ROOT
    /\ Len(urlparse(cbOut.text).path) = 1 + DefaultLength

---------------------------------------------------------------------------
(* The timing engine on its own: one `with H2Time(request1, request2, n)`  *)
(* block around one run_attack, against a peer and a network that may do   *)
(* anything: refuse the connection, answer in any order, push responses on *)
(* streams never opened, send undecodable headers or bodies, go silent,    *)
(* close, reset; and a wall clock that may stand still or step back        *)
(* between two reads.                                                      *)

MaxPairs == 2
MaxEvents == 3
MaxBatch == 2

\* the wall clock when the engine starts, in ticks: far enough from zero
\* for a clock that steps back at every read
ClockStart == 2 * MaxPairs + 1

ConnectHows == {"ok", "tcp_fail", "tls_fail"}

\* the wall clock between two reads of time.time_ns(): a step back, a tie,
\* or one tick forward
ClockSteps == {-1, 0, 1}

STATUS == <<":","s","t","a","t","u","s">>
LOCATION == <<"l","o","c","a","t","i","o","n">>

\* the header lists of the responses the peer sends
R200 == << [k |-> STATUS, v |-> <<"2","0","0">>] >>
R302 == << [k |-> STATUS, v |-> <<"3","0","2">>], [k |-> LOCATION, v |-> URL_ROOT] >>

\* a response that lists one header name twice
VARY == <<"v","a","r","y">>
R200_TwoVary == << [k |-> STATUS, v |-> <<"2","0","0">>],
                   [k |-> VARY, v |-> <<"A","c","c","e","p","t">>],
                   [k |-> VARY, v |-> <<"C","o","o","k","i","e">>] >>

\* what the streams of a pair are answered with: a redirect, or a page
\* whose Vary comes in two header lines
ResponseHeaders == {R302, R200_TwoVary}

\* a stream the client never opened (a pushed response)
PUSHED_STREAM == 2

\* sendall on a socket the peer has reset raises; on any other it may
SendFails(E) == IF E.socket = "dead" THEN {TRUE} ELSE BOOLEAN

\* the events the peer can make h2 emit next; R is the set of the pair's
\* streams whose response has been delivered.  Only the difference of the
\* pair's two clock readings is ever used, so the clock is let free
\* between the first reading and the second.
EventChoices(stream_ids, R) ==
    {Event("ResponseReceived", sid, h, "", FALSE, dt) :
        sid \in stream_ids \ R, h \in ResponseHeaders,
        dt \in IF R = {} THEN {1} ELSE ClockSteps}
    \cup {Event("ResponseReceived", sid, R200, "", TRUE, 0) : sid \in stream_ids \ R}
    \cup {Event("ResponseReceived", PUSHED_STREAM, R200, "", FALSE, 0)}
    \cup {Event("DataReceived", PUSHED_STREAM, <<>>, "txt", FALSE, 0)}
    \cup {Event("DataReceived", sid, <<>>, d, FALSE, 0) : sid \in R, d \in {"txt", "bin"}}
    \cup {Event("RemoteSettingsChanged", 0, <<>>, "", FALSE, 0)}
    \cup {Event("StreamEnded", sid, <<>>, "", FALSE, 0) : sid \in R}

AfterEvent(stream_ids, R, ev) ==
    IF ev.type = "ResponseReceived" /\ ev.stream_id \in stream_ids /\ ~ev.bad
    THEN R \cup {ev.stream_id} ELSE R

\* what one recv can carry: up to n events
RECURSIVE Batches(_, _, _)
Batches(stream_ids, R, n) ==
    IF n = 0 THEN {<<>>}
    ELSE {<<>>} \cup
         UNION {{<<ev>> \o b : b \in Batches(stream_ids, AfterEvent(stream_ids, R, ev), n - 1)} :
                    ev \in EventChoices(stream_ids, R)}

Responded(E, stream_ids) ==
    {sid \in stream_ids : DictGet(E.sent_streams, sid).response_received}

H2Init ==
    /\ CBIdle
    /\ CtlIdle
    /\ AnIdle
    /\ h2time = NewEngine
    /\ request1 = H2Request(GET, URL_PAGE, "headers")
    /\ request2 = H2Request(GET, URL_ROOT, "own_headers")
    /\ run \in {RunFrame("new", n, 0, <<>>, 0, 0, FALSE) : n \in 1..MaxPairs}
    /\ net = NetState(ClockStart, 0, 0)
    /\ trace = <<>>
    /\ pairLog = <<>>

\* how a pair ended: outcome, whether connection_open was still true
\* afterwards, and whether an exception left run_attack
PairEnd(pair, outcome, open, propagated) ==
    [pair |-> pair, outcome |-> outcome, open |-> open, propagated |-> propagated]

\* __enter__: connect(); when it raises the with block is never entered
\* and __exit__ never runs
Enter ==
    /\ run.pc = "new"
    /\ \E how \in ConnectHows :
        LET c == connect(h2time, how)
        IN  /\ h2time' = c.E
            /\ run' = [run EXCEPT !.pc = IF c.raised THEN "exited" ELSE "loop",
                                  !.error = c.raised]
    /\ UNCHANGED <<request1, request2, net, trace, pairLog>>
    /\ UNCHANGED <<cbVars, ctlVars, anVars>>

\* trace keeps the opening of a pair: what was done up to and including
\* the first socket read
Opening(ops, more) ==
    IF \E i \in DOMAIN ops : ops[i].op = "recv" THEN ops
    ELSE IF \E i \in DOMAIN more : more[i].op = "recv"
    THEN ops \o SubSeq(more, 1, CHOOSE i \in DOMAIN more :
                                    /\ more[i].op = "recv"
                                    /\ \A j \in 1..(i - 1) : more[j].op # "recv")
    ELSE ops \o more

\* where the for loop of run_attack goes after the pair it just handled
AfterPair(r) == IF r.pair >= r.num_request_pairs THEN "returned" ELSE "loop"

\* the except branch of run_attack: self.close(); continue.  An exception
\* of close() leaves run_attack.
RunExcept(r, cl, outcome, ops) ==
    /\ h2time' = cl.E
    /\ run' = IF cl.raised
              THEN [r EXCEPT !.pc = "raised", !.error = TRUE]
              ELSE [r EXCEPT !.pc = AfterPair(r)]
    /\ pairLog' = Append(pairLog, PairEnd(r.pair, outcome, cl.E.connection_open, cl.raised))
    /\ trace' = Opening(ops, Writes(cl.wrote))

ConnectOps(E, c) ==
    IF E.connection_open THEN <<>>
    ELSE <<[op |-> "connect", stream_id |-> 0, frames |-> <<>>]>> \o Writes(c.wrote)

\* The top of the for loop up to the while loop of send_request_pair:
\* sleep, connect() when the connection is not open (outside the try), the
\* two send_request calls and send_all.
BeginPair ==
    /\ run.pc = "loop"
    /\ \E how \in (IF h2time.connection_open THEN {"ok"} ELSE ConnectHows),
          sendFail \in BOOLEAN, closeFail \in BOOLEAN :
        LET r == [run EXCEPT !.pair = @ + 1]
            c == connect(h2time, how)
            sp == SendPair(c.E, get_request_headers(request1, heap),
                           get_request_headers(request2, heap), sendFail)
        IN  IF c.raised
            THEN /\ h2time' = c.E
                 /\ run' = [r EXCEPT !.pc = "raised", !.error = TRUE]
                 /\ pairLog' = Append(pairLog, PairEnd(r.pair, "connect_error",
                                                       c.E.connection_open, TRUE))
                 /\ trace' = ConnectOps(h2time, c)
            ELSE IF sp.raised
            THEN /\ closeFail \in SendFails(sp.E)
                 /\ RunExcept(r, close(sp.E, closeFail), "send_error",
                              ConnectOps(h2time, c) \o sp.ops)
            ELSE /\ h2time' = sp.E
                 /\ run' = [r EXCEPT !.pc = "pump", !.stream_id1 = sp.stream_id1,
                                     !.stream_id2 = sp.stream_id2]
                 /\ trace' = ConnectOps(h2time, c) \o sp.ops
                 /\ UNCHANGED pairLog
    /\ net' = [net EXCEPT !.events = 0, !.skipped = 0]
    /\ UNCHANGED <<request1, request2>>
    /\ UNCHANGED <<cbVars, ctlVars, anVars>>

\* socket.recv returns b'': `No data, breaking!`, send_request_pair returns
\* None, the unpacking in run_attack raises TypeError
PumpNoData ==
    /\ run.pc = "pump"
    /\ \E closeFail \in SendFails(h2time) :
        RunExcept(run, close(h2time, closeFail), "no_data", Opening(trace, <<Recv>>))
    /\ UNCHANGED <<request1, request2, net>>
    /\ UNCHANGED <<cbVars, ctlVars, anVars>>

\* socket.recv raises: a timeout (the socket stays as it is) or a reset
\* (every later call on the socket raises); or connection.receive_data
\* raises a protocol error
RecvErrors == {"timeout", "reset", "protocol"}

AfterRecvError(E, kind) == IF kind = "reset" THEN [E EXCEPT !.socket = "dead"] ELSE E

PumpRecvRaises ==
    /\ run.pc = "pump"
    /\ \E kind \in RecvErrors :
        \E closeFail \in SendFails(AfterRecvError(h2time, kind)) :
            RunExcept(run, close(AfterRecvError(h2time, kind), closeFail),
                      IF kind = "timeout" THEN "timeout" ELSE "recv_error",
                      Opening(trace, <<Recv>>))
    /\ UNCHANGED <<request1, request2, net>>
    /\ UNCHANGED <<cbVars, ctlVars, anVars>>

Min(a, b) == IF a < b THEN a ELSE b

PairStreams == {run.stream_id1, run.stream_id2}

\* a variant that stops the round on a redirect in either response
StopsRound_Either(response_headers1, response_headers2) ==
    DictHas(response_headers1, LOCATION) \/ DictHas(response_headers2, LOCATION)

\* if 'location' in response_headers1: break
StopsRound(response_headers1, response_headers2) == DictHas(response_headers1, LOCATION)

\* the end of send_request_pair once both responses are in, and what
\* run_attack does with the tuple: the two .decode() calls, results.append,
\* and the break on a location header in response 1
PairDone(E, e1, e2, closeFail, ops) ==
    IF ~(Decodable(e1.response_data) /\ Decodable(e2.response_data))
    THEN RunExcept(run, close(E, closeFail), "decode_error", ops)
    ELSE /\ h2time' = E
         /\ run' = [run EXCEPT
                      !.results = Append(@, Sample(e1, e2, run.pair)),
                      !.pc = IF StopsRound(e1.response_headers, e2.response_headers)
                             THEN "returned" ELSE AfterPair(run)]
         /\ pairLog' = Append(pairLog, PairEnd(run.pair, "sample", E.connection_open, FALSE))
         /\ trace' = ops

\* what follows one pass of the while loop
AfterPass(P, n, closeFail, ops) ==
    /\ net' = [NetState(P.clock, P.order, net.events + n) EXCEPT
                    !.skipped = net.skipped + P.skipped]
    /\ IF P.status = "none"
       THEN RunExcept(run, close(P.E, closeFail), "event_error", ops)
       ELSE IF P.status = "raise"
       THEN RunExcept(run, close(P.E, closeFail), "send_error", ops)
       ELSE IF BothReceived(P.E, run.stream_id1, run.stream_id2)
       THEN PairDone(P.E, DictGet(P.E.sent_streams, run.stream_id1),
                     DictGet(P.E.sent_streams, run.stream_id2), closeFail, ops)
       ELSE /\ h2time' = P.E
            /\ trace' = ops
            /\ UNCHANGED <<run, pairLog>>

\* socket.recv returns data: the events h2 makes of it are handled, then
\* send_all; the loop goes on until both responses are in
PumpData ==
    /\ run.pc = "pump"
    /\ net.events < MaxEvents
    /\ \E events \in Batches(PairStreams, Responded(h2time, PairStreams),
                             Min(MaxBatch, MaxEvents - net.events)) \ {<<>>},
          sendFail \in BOOLEAN, closeFail \in BOOLEAN, closeFail2 \in BOOLEAN :
        LET P == PumpPass(h2time, net.clock, net.order, run.pair, events, sendFail, closeFail)
        IN  /\ closeFail2 \in SendFails(P.E)
            /\ AfterPass(P, Len(events), closeFail2, Opening(trace, <<Recv>> \o Writes(P.wrote)))
    /\ UNCHANGED <<request1, request2>>
    /\ UNCHANGED <<cbVars, ctlVars, anVars>>

\* __exit__: close(), whether run_attack returned or raised
Exit ==
    /\ run.pc \in {"returned", "raised"}
    /\ \E fail \in SendFails(h2time) :
        LET cl == close(h2time, fail)
        IN  /\ h2time' = cl.E
            /\ run' = [run EXCEPT !.pc = "exited", !.error = @ \/ cl.raised]
    /\ UNCHANGED <<request1, request2, net, trace, pairLog>>
    /\ UNCHANGED <<cbVars, ctlVars, anVars>>

H2Next ==
    \/ Enter
    \/ BeginPair
    \/ PumpData
    \/ PumpNoData
    \/ PumpRecvRaises
    \/ Exit

SpecH2 == H2Init /\ [][H2Next]_vars

SamplesOf(pair) == {i \in DOMAIN run.results : run.results[i].pair = pair}

\* C2: every sample in results was built from two ResponseReceived events
\* handled while its own pair was being timed: both header maps and both
\* timestamps are set, and both were recorded during that pair, after its
\* HEADERS were sent, never during an earlier pair, whether or not the stream
\* ids were used before; a pair has at most one sample, and a pair that
\* ended on a socket that returned no data or on an error has none.
C2_SampleNeedsBothResponses ==
    /\ \A i \in DOMAIN run.results :
        /\ run.results[i].response_headers1 # NoHeaders
        /\ run.results[i].response_headers2 # NoHeaders
        /\ run.results[i].t1 # NoTime
        /\ run.results[i].t2 # NoTime
        /\ run.results[i].epoch1 = run.results[i].pair
        /\ run.results[i].epoch2 = run.results[i].pair
        /\ \E j \in DOMAIN pairLog :
            pairLog[j].pair = run.results[i].pair /\ pairLog[j].outcome = "sample"
    /\ \A j \in DOMAIN pairLog :
        Cardinality(SamplesOf(pairLog[j].pair)) = IF pairLog[j].outcome = "sample" THEN 1 ELSE 0

\* C2 witness: the first pair got the response of its first stream only and
\* then failed; the second pair, on a new connection, used the same stream
\* ids again and produced the only sample.
C2_Witness ==
    /\ Len(pairLog) = 2
    /\ pairLog[1].outcome \in {"no_data", "recv_error", "timeout", "event_error"}
    /\ pairLog[2].outcome = "sample"
    /\ run.stream_id1 = 1
    /\ Len(run.results) = 1
    /\ run.results[1].pair = 2

\* C3: the time_diff of every sample is the response time of stream 2 minus
\* the response time of stream 1, in milliseconds, and it is negative
\* whenever the response of stream 2 was recorded before that of stream 1.
C3_SignFollowsArrivalOrder ==
    \A i \in DOMAIN run.results :
        /\ run.results[i].time_diff.num = run.results[i].t2 - run.results[i].t1
        /\ run.results[i].time_diff.den = NS_PER_MS
        /\ (run.results[i].order2 < run.results[i].order1
                => run.results[i].time_diff.num < 0)

HeadersAt(frames, stream_id) ==
    {j \in DOMAIN frames : frames[j].type = "HEADERS" /\ frames[j].stream_id = stream_id}

TraceIdx(op) == {i \in DOMAIN trace : trace[i].op = op}

\* C4: while a pair is being timed, the HEADERS frame of request 1 was
\* serialized before that of request 2 with no socket write in between,
\* exactly one socket write carried a HEADERS frame of the pair and it
\* carried both, request 1's first, each with the headers of its request;
\* and no socket read came before that write.
C4_PairLeavesInOneWrite ==
    run.pc = "pump" =>
        \E a, b, w \in DOMAIN trace :
            /\ a < b /\ b < w
            /\ trace[a] = Ser(run.stream_id1)
            /\ trace[b] = Ser(run.stream_id2)
            /\ \A i \in TraceIdx("ser") : i \in {a, b}
            /\ \A i \in TraceIdx("write") : ~(a < i /\ i < b)
            /\ trace[w].op = "write"
            /\ \A i \in TraceIdx("write") :
                (HeadersAt(trace[i].frames, run.stream_id1)
                    \cup HeadersAt(trace[i].frames, run.stream_id2)) # {} => i = w
            /\ \E j1 \in HeadersAt(trace[w].frames, run.stream_id1) :
                \E j2 \in HeadersAt(trace[w].frames, run.stream_id2) :
                    /\ j1 < j2
                    /\ HeadersAt(trace[w].frames, run.stream_id1) = {j1}
                    /\ HeadersAt(trace[w].frames, run.stream_id2) = {j2}
                    /\ trace[w].frames[j1].headers = get_request_headers(request1, heap)
                    /\ trace[w].frames[j2].headers = get_request_headers(request2, heap)
            /\ \A i \in TraceIdx("recv") : w < i

\* C4 witness: the second pair of a round is in its while loop on the
\* connection of the first, its two HEADERS frames went out and the socket
\* has been read.
C4_Witness ==
    /\ run.pc = "pump"
    /\ run.pair = 2
    /\ run.stream_id1 = 5
    /\ TraceIdx("recv") # {}
    /\ TraceIdx("connect") = {}

\* the values a header list gives for one name, joined by ', ' in the order
\* of the list
RECURSIVE Joined(_, _, _)
Joined(list, name, i) ==
    IF i > Len(list) THEN <<>>
    ELSE IF list[i].k # name THEN Joined(list, name, i + 1)
    ELSE IF \E j \in (i + 1)..Len(list) : list[j].k = name
    THEN list[i].v \o <<",", " ">> \o Joined(list, name, i + 1)
    ELSE list[i].v

\* C15: the header map stored for a stream has, for every name of the
\* response's header list, a single entry whose value is the values of all
\* the occurrences of the name joined by ', ' in arrival order.
C15_RepeatedHeadersAreJoined ==
    \A s \in DOMAIN h2time.sent_streams :
        LET entry == h2time.sent_streams[s].v
        IN  entry.response_received =>
                \A i \in DOMAIN entry.listed :
                    /\ Cardinality({j \in DOMAIN entry.response_headers :
                                        entry.response_headers[j].k = entry.listed[i].k}) = 1
                    /\ DictGet(entry.response_headers, entry.listed[i].k)
                            = Joined(entry.listed, entry.listed[i].k, 1)

\* C16: the stream ids of a pair are odd, request 2's is request 1's plus 2,
\* and request 1's is 2 more than the last stream id the engine used for
\* the pair sent before it in the round, whether or not the engine closed
\* and reconnected in between.
C16_StreamIdsGrowByTwo ==
    [][(run.pc = "loop" /\ run'.pc = "pump") =>
            /\ run'.stream_id1 % 2 = 1
            /\ run'.stream_id2 = run'.stream_id1 + 2
            /\ (run.stream_id2 # 0 => run'.stream_id1 = run.stream_id2 + 2)]_vars

\* C17: run_attack leaves request1 and request2 as they are and sends every
\* pair once; a sample whose response 1 has a location header is in the
\* results, is the last one, and no pair was sent after its own; and
\* run_attack returns before its last pair only after such a sample, so a
\* location header in response 2 alone lets the round go on.
C17_EngineFollowsNoRedirect ==
    /\ [][/\ request1' = request1
          /\ request2' = request2
          /\ run'.pair \in {run.pair, run.pair + 1}]_vars
    /\ [](/\ run.pair <= run.num_request_pairs
          /\ \A i \in DOMAIN run.results :
                DictHas(run.results[i].response_headers1, LOCATION) =>
                    /\ i = Len(run.results)
                    /\ run.results[i].pair = run.pair
                    /\ run.pc \in {"returned", "exited"}
          /\ (run.pc = "returned" /\ run.pair < run.num_request_pairs) =>
                /\ run.results # <<>>
                /\ run.results[Len(run.results)].pair = run.pair
                /\ DictHas(run.results[Len(run.results)].response_headers1, LOCATION))

\* C17 witness: in a round of two pairs the first pair's sample has a
\* location header in response 2 only and the second pair was sent; its
\* sample has one in response 1.
C17_Witness ==
    /\ run.num_request_pairs = 2
    /\ Len(run.results) = 2
    /\ ~DictHas(run.results[1].response_headers1, LOCATION)
    /\ DictHas(run.results[1].response_headers2, LOCATION)
    /\ DictHas(run.results[2].response_headers1, LOCATION)
    /\ run.pc = "returned"

\* a ResponseReceived or DataReceived event on a stream that is not in
\* sent_streams
OnUnknownStream(E, ev) ==
    /\ ev.type \in {"ResponseReceived", "DataReceived"}
    /\ ~DictHas(E.sent_streams, ev.stream_id)

\* what the pump has done, the count of skipped events left out
Done(P) == [P EXCEPT !.skipped = 0]

\* C18: while a pair is being timed, an event on a stream that is not in
\* sent_streams leaves the engine as it is and raises nothing, and the
\* events that follow it are handled as if it had not been there, so the
\* pair completes as it would have without it.
C18_UnknownStreamIsSkipped ==
    run.pc = "pump" =>
        LET P == Pump(h2time, net.clock, net.order, run.pair, "go", <<>>)
            choices == EventChoices(PairStreams, Responded(h2time, PairStreams))
        IN  \A ev \in choices :
                OnUnknownStream(h2time, ev) =>
                    \A closeFail \in BOOLEAN :
                        /\ Done(ProcessEvent(P, ev, closeFail)) = P
                        /\ \A next \in choices :
                            Done(ProcessEvents(P, <<ev, next>>, 1, closeFail))
                                = Done(ProcessEvents(P, <<next>>, 1, closeFail))

\* C18 witness: the second pair of a round has its sample although events
\* on an unknown stream came in while it was being timed.
C18_Witness ==
    /\ net.skipped > 0
    /\ run.pair = 2
    /\ Len(pairLog) = 2
    /\ pairLog[2].outcome = "sample"

\* C19: once the timeout has expired on a pair of a round, no further pair
\* of the round is attempted: the pair that timed out is the last one the
\* engine sent.
C19_TimeoutEndsRound ==
    \A j \in DOMAIN pairLog :
        pairLog[j].outcome = "timeout" => run.pair = pairLog[j].pair

PairErrors == {"send_error", "no_data", "recv_error", "timeout", "event_error", "decode_error"}

\* C10: a pair that failed inside run_attack on a network or protocol error
\* left no sample, left the connection closed (connection_open false), and
\* raised nothing to the caller of run_attack; and a pair that follows a
\* failed pair opens a new connection before it sends.
C10_PairFailureIsContained ==
    /\ \A j \in DOMAIN pairLog :
        pairLog[j].outcome \in PairErrors =>
            /\ SamplesOf(pairLog[j].pair) = {}
            /\ ~pairLog[j].open
            /\ ~pairLog[j].propagated
    /\ (/\ run.pc = "pump"
        /\ \E j \in DOMAIN pairLog :
            pairLog[j].pair = run.pair - 1 /\ pairLog[j].outcome \in PairErrors)
       => TraceIdx("connect") # {}

---------------------------------------------------------------------------
(* One timing round as the controllers run it:                             *)
(*     with H2Time(request1, request2, num_request_pairs=1) as h2time:     *)
(*         results = h2time.run_attack()                                   *)
(* taken as one step built from the engine's own operations.  env is what  *)
(* the network does during the round: how (connect), sendFail (the         *)
(* sendall of the pair), events (what the one recv carries, <<>> for no    *)
(* data), closeFail (the sendall inside the close() of run_attack's except *)
(* branch) and exitFail (the sendall inside the close() of __exit__).      *)

RoundEnv(how, sendFail, events, closeFail, exitFail) ==
    [how |-> how, sendFail |-> sendFail, events |-> events, closeFail |-> closeFail,
     exitFail |-> exitFail]

\* what the with block leaves: the results run_attack returned, which of
\* __enter__, run_attack and __exit__ raised, and the header lists of the
\* HEADERS frames that reached the socket
RoundResult(results, enter_raised, run_raised, exit_raised, wire) ==
    [results |-> results, enter_raised |-> enter_raised, run_raised |-> run_raised,
     exit_raised |-> exit_raised, wire |-> wire]

\* the header lists of the HEADERS frames among the socket writes in ops
RECURSIVE HeadersOf(_)
HeadersOf(frames) ==
    IF frames = <<>> THEN <<>>
    ELSE (IF Head(frames).type = "HEADERS" THEN <<Head(frames).headers>> ELSE <<>>)
         \o HeadersOf(Tail(frames))

RECURSIVE WireOf(_)
WireOf(ops) ==
    IF ops = <<>> THEN <<>>
    ELSE (IF Head(ops).op = "write" THEN HeadersOf(Head(ops).frames) ELSE <<>>)
         \o WireOf(Tail(ops))

\* __exit__ after run_attack
RoundExit(cl, results, run_raised, wire) ==
    RoundResult(results, FALSE, run_raised, cl.raised, wire)

\* run_attack's except branch: close(); continue; then return results
RoundExcept(cl, wire, env) ==
    RoundExit(close(cl.E, env.exitFail), <<>>, cl.raised, wire)

RoundSample(E, e1, e2, wire, env) ==
    IF Decodable(e1.response_data) /\ Decodable(e2.response_data)
    THEN RoundExit(close(E, env.exitFail), <<Sample(e1, e2, 1)>>, FALSE, wire)
    ELSE RoundExcept(close(E, env.closeFail), wire, env)

RoundPumped(P, stream_id1, stream_id2, wire, env) ==
    IF P.status = "go" /\ BothReceived(P.E, stream_id1, stream_id2)
    THEN RoundSample(P.E, DictGet(P.E.sent_streams, stream_id1),
                     DictGet(P.E.sent_streams, stream_id2), wire, env)
    ELSE RoundExcept(close(P.E, env.closeFail), wire, env)

RoundSent(sp, env) ==
    IF sp.raised \/ env.events = <<>>
    THEN RoundExcept(close(sp.E, env.closeFail), WireOf(sp.ops), env)
    ELSE RoundPumped(PumpPass(sp.E, 0, 0, 1, env.events, FALSE, FALSE),
                     sp.stream_id1, sp.stream_id2, WireOf(sp.ops), env)

RoundEntered(c, headers1, headers2, env) ==
    IF c.raised THEN RoundResult(<<>>, TRUE, FALSE, FALSE, <<>>)
    ELSE RoundSent(SendPair(c.E, headers1, headers2, env.sendFail), env)

timing_round(req1, req2, hp, env) ==
    RoundEntered(connect(NewEngine, env.how), get_request_headers(req1, hp),
                 get_request_headers(req2, hp), env)

R302_NoLocation == << [k |-> STATUS, v |-> <<"3","0","2">>] >>

\* a 307 to an absolute URL
R307 == << [k |-> STATUS, v |-> <<"3","0","7">>], [k |-> LOCATION, v |-> URL_ROOT] >>

\* the responses a server gives the controllers: 200, a 302 to an absolute
\* URL, a 302 that names no location
ServerAnswers == {R200, R302, R302_NoLocation}

\* the two responses of a pair: any two of these, or a 307 for both
ServerPairs == (ServerAnswers \X ServerAnswers) \cup {<<R307, R307>>}

\* what the network does to one round of a controller
RoundEnvs ==
    {RoundEnv("tcp_fail", FALSE, <<>>, FALSE, FALSE)}
    \cup {RoundEnv("ok", TRUE, <<>>, cf, xf) : cf \in BOOLEAN, xf \in BOOLEAN}
    \cup {RoundEnv("ok", FALSE, <<>>, FALSE, xf) : xf \in BOOLEAN}
    \cup {RoundEnv("ok", FALSE,
                   << Event("ResponseReceived", 3, hh[2], "", FALSE, 1),
                      Event("ResponseReceived", 1, hh[1], "", FALSE, 1) >>,
                   FALSE, FALSE) : hh \in ServerPairs}

\* the HEADERS frames the engine has put into the h2 connection: those
\* still in its buffer and those of the writes of the current pair
HeadersFrames ==
    {h2time.connection.out[i] : i \in DOMAIN h2time.connection.out}
        \cup UNION {{trace[i].frames[j] : j \in DOMAIN trace[i].frames} : i \in DOMAIN trace}

\* C24: in every header list send_request handed to the h2 connection the
\* first four names are :method, :authority, :scheme and :path, in this
\* order, and none of them comes again further down, whatever keys the
\* headers dict of the request has.
C24_PseudoHeadersFirst ==
    \A f \in HeadersFrames :
        f.type = "HEADERS" =>
            /\ Len(f.headers) >= Len(PSEUDO_HEADERS)
            /\ \A i \in DOMAIN PSEUDO_HEADERS : f.headers[i].k = PSEUDO_HEADERS[i]
            /\ \A i \in DOMAIN f.headers :
                    i > Len(PSEUDO_HEADERS) => f.headers[i].k \notin Range(PSEUDO_HEADERS)

\* C24 witness: a header list went out for a request whose headers dict
\* has the key ':path' after a regular header; the list carries the
\* dict's value at the fourth place and the regular headers after it.
C24_Witness ==
    \E f \in HeadersFrames :
        /\ f.type = "HEADERS"
        /\ Len(f.headers) > Len(PSEUDO_HEADERS)
        /\ f.headers[4] = [k |-> PSEUDO_HEADERS[4], v |-> <<"/","x">>]
        /\ \E i \in DOMAIN trace : trace[i].op = "write" /\ f \in Range(trace[i].frames)

---------------------------------------------------------------------------
(* The experiment scripts.  experiment-wcd.py is followed from the crawl   *)
(* loop down to each timing round; of preliminary-experiment.py the fixed  *)
(* round is followed, entered in the state its randomized round and the    *)
(* priming leave behind.  The crawler, the browser and the attack-URL      *)
(* generator (lib/crawler.py, lib/wcde.py) answer as their interface       *)
(* allows; of Analysis().analyse only whether it returns or raises is      *)
(* followed here.  A run with one pair per round crawls two URLs, a run    *)
(* with more pairs per round one.                                          *)

MaxRequests == 2

\* the tokens a run draws before it builds no further pair
MaxTokens == 70

\* the failures of a run: timing rounds the network breaks and exceptions
\* of the browser, the attack-URL fetch, the analyser and the output; a
\* pair the server answers with a 307 counts among them
MaxFaults == 1

MAX_REDIRECTS == 5

MODES == <<"PATH_PARAMETER", "ENCODED_QUESTION", "ENCODED_SEMICOLON">>

EXTENSION == <<".","c","s","s">>

HTTP == <<"h","t","t","p">>

\* the scripts modelled: "wcd" is experiment-wcd.py, "pre" and "pre_strong"
\* are preliminary-experiment.py without and with strong_cache_busting
Scripts == {"wcd", "pre", "pre_strong"}

\* wcde.generate_attack_url(url, mode, extension): a path parameter with
\* the extension
generate_attack_url(url) == url \o <<"/","w">> \o EXTENSION

\* `while following_redirects and redirects_followed < 5`
KeepFollowing_NoLimit(following_redirects, redirects_followed) == following_redirects

KeepFollowing(following_redirects, redirects_followed) ==
    following_redirects /\ redirects_followed < MAX_REDIRECTS

IsRedirect(h) == DictGet(h, STATUS) \in {<<"3","0","1">>, <<"3","0","2">>}

\* exactly one of the two responses is a 301/302 and the other one has no
\* location header
LoneRedirect(h1, h2) ==
    \/ IsRedirect(h1) /\ ~IsRedirect(h2) /\ ~DictHas(h2, LOCATION)
    \/ IsRedirect(h2) /\ ~IsRedirect(h1) /\ ~DictHas(h1, LOCATION)

\* the rewrite of url1 / url2 from a location header
Relocated(url, parsed, location) ==
    IF StartsWith(location, HTTP) THEN location
    ELSE urlunparse(parsed.scheme, parsed.netloc, location, parsed.params, parsed.query,
                    parsed.fragment)

Follow(url, h) ==
    IF DictHas(h, LOCATION) THEN Relocated(url, urlparse(url), DictGet(h, LOCATION)) ELSE url

\* the reads of response_headers1['location'] and response_headers2['location']
\* on the way through the redirect branch raise KeyError when the header is
\* missing: experiment-wcd.py reads both in its loop check (the second only
\* when the first differs from url1), and response 2's first in its fixed
\* round; preliminary-experiment.py reads response 1's in its log line
RedirectKeyError(script, phase, url1, h1, h2) ==
    IF script = "wcd"
    THEN \/ (phase = "fixed" /\ ~DictHas(h2, LOCATION))
         \/ ~DictHas(h1, LOCATION)
         \/ (url1 # DictGet(h1, LOCATION) /\ ~DictHas(h2, LOCATION))
    ELSE ~DictHas(h1, LOCATION)

\* what the body of `for result in results` does with one result
Outcome(kind, url1, url2) == [kind |-> kind, url1 |-> url1, url2 |-> url2]

ProcessResult(script, phase, url1, url2, h1, h2) ==
    IF IsRedirect(h1) \/ IsRedirect(h2)
    THEN IF RedirectKeyError(script, phase, url1, h1, h2)
         THEN Outcome("raise", url1, url2)
         ELSE Outcome("redirect", Follow(url1, h1), Follow(url2, h2))
    ELSE Outcome("sample", url1, url2)

\* the dict appended to a bucket, cut to the urls and status codes
Bucketed(url1, url2, h1, h2) ==
    [first |-> [url |-> url1, status_code |-> DictGet(h1, STATUS)],
     second |-> [url |-> url2, status_code |-> DictGet(h2, STATUS)]]

\* the URL a transmitted header list asks for
UrlOf(headers) ==
    DictGet(headers, <<":","s","c","h","e","m","e">>) \o <<":","/","/">>
        \o DictGet(headers, <<":","a","u","t","h","o","r","i","t","y">>)
        \o DictGet(headers, <<":","p","a","t","h">>)

\* where a response told a request to go: the location of a 301/302 when
\* it is an absolute URL
Told(h) ==
    IF IsRedirect(h) /\ DictHas(h, LOCATION) /\ StartsWith(DictGet(h, LOCATION), HTTP)
    THEN DictGet(h, LOCATION) ELSE None

CtlVaryValues == {<<>>, <<"A","c","c","e","p","t">>}

\* the Vary header of the site's pages: the page varies on Accept, the
\* root carries none
VaryOf(url) == IF url = URL_PAGE THEN <<"A","c","c","e","p","t">> ELSE <<>>

\* experiment-wcd.py about to enter its crawl loop
WcdInit ==
    /\ CBIdle
    /\ H2Idle
    /\ AnIdle
    /\ \E n \in 1..MaxRequests :
        ctl = Ctl("top", "wcd", n, IF n = 1 THEN <<URL_PAGE, URL_ROOT>> ELSE <<URL_PAGE>>,
                  None, <<>>, 0, "none", 0, None, None, None, FALSE, 0)
    /\ sent_requests = NoBuckets
    /\ statistics = NoStatistics
    /\ wireLog = NoWire
    /\ urlLog = <<>>
    /\ faults = 0

\* preliminary-experiment.py at the top of its fixed round: one randomized
\* pair was built and recorded and the fixed variant was primed, g1, g2 and
\* g3 being the three cache_bust_request calls made for them; attack_url
\* keeps cache_busted_url, the URL the priming requested.  Without
\* strong_cache_busting the priming passes response.headers.get('vary') on,
\* None when the page has no Vary header, and cache_bust_request raises on
\* it: the fixed round is reached with a Vary header only.
PreStart(script, n, vary, g1, g2, g3) ==
    /\ _cache_busters = g3.st.cb
    /\ rng = g3.st.rng
    /\ issued = g3.st.issued
    /\ heap = g3.heap
    /\ cbOut = CBOut("none", 0, <<>>, <<>>, <<>>, FALSE, 0)
    /\ cbCalls = 0
    /\ ctl = Ctl("pair", script, n, <<>>, URL_PAGE, vary, 1, "fixed", 0,
                 g1.url, g2.url, g3.url, FALSE, 0)
    /\ sent_requests = [randomized |-> <<Bucketed(g1.url, g2.url, R200, R200)>>,
                        fixed |-> <<>>]

PreInit ==
    /\ H2Idle
    /\ AnIdle
    /\ \E script \in {"pre", "pre_strong"}, n \in 1..MaxRequests, vary \in CtlVaryValues :
        /\ script = "pre" => vary # <<>>
        /\ \E g1 \in {cache_bust_request(CBState(<<>>, 0, <<>>), InitHeap, URL_PAGE, "headers",
                                      "cbr_cookies", vary, script = "pre_strong")} :
            \E g2 \in {cache_bust_request(g1.st, g1.heap, URL_PAGE, "headers",
                                          "cbr_cookies", vary, script = "pre_strong")} :
                \E g3 \in {cache_bust_request(g2.st, g2.heap, URL_PAGE, "headers",
                                              "cbr_cookies", vary, script = "pre_strong")} :
                    PreStart(script, n, vary, g1, g2, g3)
    /\ statistics = NoStatistics
    /\ wireLog = NoWire
    /\ urlLog = <<>>
    /\ faults = 0

CtlInit == WcdInit \/ PreInit

engineVars == <<h2time, run, net, trace, pairLog>>

\* one more failure of the environment
Fault ==
    /\ faults < MaxFaults
    /\ faults' = faults + 1

\* the network breaks the round, or the server answers it with a 307
IsFault(env) ==
    \/ env.how # "ok" \/ env.sendFail \/ env.events = <<>> \/ env.closeFail \/ env.exitFail
    \/ \E i \in DOMAIN env.events : env.events[i].headers = R307

\* main()'s locals at the top of the crawl loop: what the next URL assigns
\* before it reads is forgotten
AtTop(pc) ==
    Ctl(pc, ctl.script, ctl.num_requests, ctl.queue, ctl.url, <<>>, 0, "none", 0,
        None, None, None, FALSE, 0)

\* a step inside the handling of a URL that only moves main() on
Step(c, w) ==
    /\ ctl' = c
    /\ wireLog' = w
    /\ UNCHANGED <<sent_requests, statistics, urlLog, request1, request2>>

\* what urlLog keeps of a URL: the exceptions raised and the entries made
\* in statistics['errors'] while it was handled, how its handling ended,
\* whether a keyboard interrupt came in, whether the engine of the
\* interrupted round still had its connection open afterwards, and
\* whether the URL ended on an exception raised while a result was handled
\* of which exactly one response was a 301/302 and the other had no
\* location header
UrlEntry(url, raised, entries, how, interrupted, open, lone) ==
    [url |-> url, raised |-> raised, entries |-> entries, how |-> how,
     interrupted |-> interrupted, open |-> open, lone |-> lone]

\* the handling of the URL ends, its entry goes to urlLog and main()'s
\* locals are as at the top of the loop
UrlLeft(pc, entry) ==
    /\ urlLog' = Append(urlLog, entry)
    /\ wireLog' = NoWire
    /\ ctl' = AtTop(pc)
    /\ sent_requests' = NoBuckets
    /\ request1' = H2Request(GET, URL_PAGE, "headers")
    /\ request2' = H2Request(GET, URL_ROOT, "headers")

\* the handling of the URL ends: `continue`, `break`, the end of the loop
\* body; w is the history of the URL so far
UrlDoneOn(pc, w, how, raised, entries, lone) ==
    /\ urlLog' = Append(urlLog, UrlEntry(ctl.url, w.raised + raised, w.entries + entries,
                                         how, FALSE, FALSE, lone))
    /\ wireLog' = NoWire
    /\ ctl' = AtTop(pc)
    /\ sent_requests' = NoBuckets
    /\ request1' = H2Request(GET, URL_PAGE, "headers")
    /\ request2' = H2Request(GET, URL_ROOT, "headers")

UrlDone(pc, w, how, raised, entries) == UrlDoneOn(pc, w, how, raised, entries, FALSE)

\* the outer `except Exception`, reached by the raised-th further
\* exception of this URL: one entry for statistics['errors'], then the
\* next turn of the loop; lone tells of the result that was being handled
HandlerOn(w, raised, lone) ==
    /\ statistics' = [statistics EXCEPT !.errors = Append(@, ctl.url)]
    /\ UrlDoneOn("top", w, "handler", raised, 1, lone)

Handler(w, raised) == HandlerOn(w, raised, FALSE)

\* `while crawler.should_continue()`, crawler.get_url_from_queue()
NextUrl ==
    /\ ctl.pc = "top"
    /\ IF ctl.queue = <<>>
       THEN Step([ctl EXCEPT !.pc = "save"], wireLog)
       ELSE Step([ctl EXCEPT !.pc = "visit", !.url = Head(ctl.queue), !.queue = Tail(ctl.queue)],
                 wireLog)
    /\ UNCHANGED <<cbVars, engineVars, anVars, faults>>

\* browser.get(url): a response with the page's Vary, one of the
\* exceptions caught on the spot (an entry for statistics['errors'] and
\* `continue`), or any other exception
Visit ==
    /\ ctl.pc = "visit"
    /\ \/ /\ Step([ctl EXCEPT !.pc = "mode", !.vary = VaryOf(ctl.url), !.mode = 1], wireLog)
          /\ UNCHANGED faults
       \/ /\ Fault
          /\ statistics' = [statistics EXCEPT !.errors = Append(@, ctl.url)]
          /\ UrlDone("top", wireLog, "continue", 1, 1)
       \/ Fault /\ Handler(wireLog, 1)
    /\ UNCHANGED <<cbVars, engineVars, anVars>>

\* what a new phase keeps of the history: the exceptions and entries of
\* the URL
NewPhase(w) == [NoWire EXCEPT !.raised = w.raised, !.entries = w.entries]

\* `for mode in MODES`: the two attack URLs are fetched and compared; the
\* mode is skipped when the responses are identical.  After the last mode
\* the URL's output is written.
Mode ==
    /\ ctl.pc = "mode"
    /\ IF ctl.mode > Len(MODES)
       THEN Step([ctl EXCEPT !.pc = "output"], wireLog) /\ UNCHANGED faults
       ELSE \/ Step([ctl EXCEPT !.mode = @ + 1], wireLog) /\ UNCHANGED faults
            \/ /\ ctl' = [ctl EXCEPT !.pc = "pair", !.phase = "randomized", !.i = 0]
               /\ sent_requests' = NoBuckets
               /\ wireLog' = NewPhase(wireLog)
               /\ UNCHANGED <<statistics, urlLog, request1, request2, faults>>
            \/ Fault /\ Handler(wireLog, 1)
    /\ UNCHANGED <<cbVars, engineVars, anVars>>

\* the state a new pair starts its redirect loop in
PairBuilt(st, hp, url1, url2, req1, req2) ==
    /\ _cache_busters' = st.cb
    /\ rng' = st.rng
    /\ issued' = st.issued
    /\ heap' = hp
    /\ request1' = req1
    /\ request2' = req2
    /\ ctl' = [ctl EXCEPT !.pc = "while", !.i = @ + 1, !.url1 = url1, !.url2 = url2,
                          !.following_redirects = TRUE, !.redirects_followed = 0]
    /\ wireLog' = [wireLog EXCEPT !.rounds = 0, !.recorded = FALSE, !.last = <<>>,
                                  !.told = <<None, None>>, !.retry = NoRetry]

\* experiment-wcd.py, randomized round: two calls on the same headers dict,
\* then the two requests
WcdRandomized(g1, g2) ==
    PairBuilt(g2.st, g2.heap, g1.url, g2.url,
              H2Request(GET, g1.url, g1.headers), H2Request(GET, g2.url, g2.headers))

\* experiment-wcd.py, fixed round: request 2 is the attack URL with the
\* script's headers dict
WcdFixed(g1) ==
    PairBuilt(g1.st, g1.heap, g1.url, ctl.url2,
              H2Request(GET, g1.url, g1.headers), H2Request(GET, ctl.attack_url, "headers"))

\* preliminary-experiment.py, fixed round: url2 is the URL of the first
\* randomized sample; the requests are built inside the redirect loop
PreFixed(g1, _url) == PairBuilt(g1.st, g1.heap, g1.url, _url, request1, request2)

\* with strong_cache_busting only the path of url1 is cache-busted
PreFixedStrong(p, _url) == PairBuilt(p.st, heap, p.url, _url, request1, request2)

PhaseEnd ==
    IF ctl.script = "wcd"
    THEN IF ctl.phase = "randomized" THEN "attack" ELSE "analysis"
    ELSE "output"

CBR(st, hp, url) == cache_bust_request(st, hp, url, "headers", "cbr_cookies", ctl.vary, FALSE)

\* the top of `for _ in range(num_requests)` up to the redirect loop
NewPair ==
    /\ ctl.pc = "pair"
    /\ IF ctl.i >= ctl.num_requests \/ (ctl.script # "wcd" /\ sent_requests.randomized = <<>>)
       THEN /\ ctl' = [ctl EXCEPT !.pc = PhaseEnd]
            /\ UNCHANGED <<_cache_busters, rng, issued, heap, request1, request2, wireLog>>
       ELSE IF Len(issued) >= MaxTokens THEN FALSE
       ELSE IF ctl.script = "wcd" /\ ctl.phase = "randomized"
       THEN \E g1 \in {CBR(CBNow(rng), heap, ctl.url)} :
                \E g2 \in {CBR(g1.st, g1.heap, ctl.url)} : WcdRandomized(g1, g2)
       ELSE IF ctl.script = "wcd"
       THEN \E g1 \in {CBR(CBNow(rng), heap, ctl.url)} : WcdFixed(g1)
       ELSE IF ctl.script = "pre_strong"
       THEN \E p \in {cache_bust_path(CBNow(rng), sent_requests.randomized[1].first.url)} :
                PreFixedStrong(p, sent_requests.randomized[1].first.url)
       ELSE \E g1 \in {CBR(CBNow(rng), heap, sent_requests.randomized[1].first.url)} :
                PreFixed(g1, sent_requests.randomized[1].first.url)
    /\ UNCHANGED <<cbOut, cbCalls, engineVars, anVars>>
    /\ UNCHANGED <<sent_requests, statistics, urlLog, faults>>

\* the loop condition fails: time.sleep and on to the next pair
LeaveLoop ==
    /\ ctl.pc = "while"
    /\ ~KeepFollowing(ctl.following_redirects, ctl.redirects_followed)
    /\ Step([ctl EXCEPT !.pc = "pair"], wireLog)
    /\ UNCHANGED <<cbVars, engineVars, anVars, faults>>

\* what the round adds to the history of the wire
WireAfter(rr) ==
    IF Len(rr.wire) # 2 THEN [wireLog EXCEPT !.rounds = @ + 1]
    ELSE [wireLog EXCEPT
            !.rounds = @ + 1,
            !.last = rr.wire,
            !.first2 = IF @ = NoHeaders THEN rr.wire[2] ELSE @,
            !.retry = IF wireLog.told = <<None, None>> THEN @
                      ELSE [told1 |-> wireLog.told[1], went1 |-> UrlOf(rr.wire[1]),
                            told2 |-> wireLog.told[2], went2 |-> UrlOf(rr.wire[2])],
            !.told = <<None, None>>]

\* a step of the redirect loop that goes on with the same URL
LoopStep(c, w, req1, req2) ==
    /\ ctl' = c
    /\ wireLog' = w
    /\ request1' = req1
    /\ request2' = req2
    /\ UNCHANGED <<statistics, urlLog>>

\* the body of `for result in results` on the one result of the round
Processed(w, o, h1, h2, req1, req2) ==
    IF o.kind = "raise" THEN HandlerOn(w, 1, LoneRedirect(h1, h2))
    ELSE IF o.kind = "redirect"
    THEN /\ LoopStep([ctl EXCEPT !.url1 = o.url1, !.url2 = o.url2,
                                 !.following_redirects = TRUE,
                                 !.redirects_followed = @ + 1],
                     [w EXCEPT !.told = <<Told(h1), Told(h2)>>], req1, req2)
         /\ UNCHANGED sent_requests
    ELSE /\ LoopStep([ctl EXCEPT !.following_redirects = FALSE],
                     [w EXCEPT !.recorded = TRUE], req1, req2)
         /\ sent_requests' = [sent_requests EXCEPT
                                ![ctl.phase] = Append(@, Bucketed(ctl.url1,
                                    IF ctl.script = "wcd" /\ ctl.phase = "fixed"
                                    THEN ctl.attack_url ELSE ctl.url2, h1, h2))]

\* what the controller does once the with block is over.  In the
\* randomized round of experiment-wcd.py an exception of run_attack is
\* caught inside the with block, logged, and the redirect loop is left with
\* `break`; everywhere else it goes to the outer handler.  An exception of
\* __enter__ or __exit__ always does.
RoundDone(w, rr, req1, req2) ==
    IF rr.enter_raised THEN Handler(w, 1)
    ELSE IF rr.run_raised
    THEN IF ctl.script = "wcd" /\ ctl.phase = "randomized" /\ ~rr.exit_raised
         THEN /\ LoopStep([ctl EXCEPT !.pc = "pair", !.following_redirects = FALSE],
                          [w EXCEPT !.raised = @ + 1], req1, req2)
              /\ UNCHANGED sent_requests
         ELSE Handler(w, IF rr.exit_raised THEN 2 ELSE 1)
    ELSE IF rr.exit_raised THEN Handler(w, 1)
    ELSE IF rr.results = <<>>
    THEN /\ LoopStep([ctl EXCEPT !.following_redirects = FALSE], w, req1, req2)
         /\ UNCHANGED sent_requests
    ELSE Processed(w,
                   ProcessResult(ctl.script, ctl.phase, ctl.url1, ctl.url2,
                                 rr.results[1].response_headers1,
                                 rr.results[1].response_headers2),
                   rr.results[1].response_headers1, rr.results[1].response_headers2,
                   req1, req2)

\* one turn of the redirect loop: following_redirects = False, the
\* requests (built anew in preliminary-experiment.py, the ones built before
\* the loop in experiment-wcd.py), the timing round, its result
Round ==
    /\ ctl.pc = "while"
    /\ KeepFollowing(ctl.following_redirects, ctl.redirects_followed)
    /\ \E env \in RoundEnvs :
        /\ IF IsFault(env) THEN Fault ELSE UNCHANGED faults
        /\ \E req1 \in {IF ctl.script = "wcd" THEN request1
                         ELSE H2Request(GET, ctl.url1, "headers")},
              req2 \in {IF ctl.script = "wcd" THEN request2
                         ELSE H2Request(GET, ctl.url2, "headers")} :
              \E rr \in {timing_round(req1, req2, heap, env)} :
                  RoundDone(WireAfter(rr), rr, req1, req2)
    /\ UNCHANGED <<cbVars, engineVars, anVars>>

\* experiment-wcd.py between its two rounds: the attack URL is generated
\* and fetched once; a redirect away from it skips the mode
Attack ==
    /\ ctl.pc = "attack"
    /\ \/ Step([ctl EXCEPT !.pc = "pair", !.phase = "fixed", !.i = 0,
                           !.attack_url = generate_attack_url(ctl.url)],
               NewPhase(wireLog)) /\ UNCHANGED faults
       \/ Step([ctl EXCEPT !.pc = "mode", !.mode = @ + 1], wireLog) /\ UNCHANGED faults
       \/ Fault /\ Handler(wireLog, 1)
    /\ UNCHANGED <<cbVars, engineVars, anVars>>

\* Analysis().analyse and the scan of its verdicts, then the next mode
Analysis ==
    /\ ctl.pc = "analysis"
    /\ \/ Step([ctl EXCEPT !.pc = "mode", !.mode = @ + 1], wireLog) /\ UNCHANGED faults
       \/ Fault /\ Handler(wireLog, 1)
    /\ UNCHANGED <<cbVars, engineVars, anVars>>

\* the output file of the URL and statistics['tested'] = True; the
\* preliminary experiment first drops the URL when too few fixed samples
\* are left (`continue`), and leaves the crawl loop once it has written one
\* file (`break`)
Output ==
    /\ ctl.pc = "output"
    /\ \/ /\ statistics' = [statistics EXCEPT !.tested = TRUE]
          /\ IF ctl.script = "wcd" THEN UrlDone("top", wireLog, "end", 0, 0)
             ELSE UrlDone("save", wireLog, "break", 0, 0)
          /\ UNCHANGED faults
       \/ /\ ctl.script # "wcd"
          /\ UrlDone("top", wireLog, "continue", 0, 0)
          /\ UNCHANGED <<statistics, faults>>
       \/ Fault /\ Handler(wireLog, 1)
    /\ UNCHANGED <<cbVars, engineVars, anVars>>

\* where a URL is being handled
InUrl == {"visit", "mode", "pair", "while", "attack", "analysis", "output"}

\* `except KeyboardInterrupt: break`
InterruptCaught(open) ==
    /\ UrlLeft("save", UrlEntry(ctl.url, wireLog.raised, wireLog.entries, "interrupt",
                                TRUE, open, FALSE))
    /\ UNCHANGED <<statistics, faults>>

\* the interrupt reaches __exit__ of the with block: close().  An
\* exception of close() takes the place of the KeyboardInterrupt and goes
\* to the outer `except Exception`.
InterruptInRound(cl) ==
    IF cl.raised
    THEN /\ Fault
         /\ statistics' = [statistics EXCEPT !.errors = Append(@, ctl.url)]
         /\ UrlLeft("top", UrlEntry(ctl.url, wireLog.raised + 1, wireLog.entries + 1,
                                    "handler", TRUE, cl.E.connection_open, FALSE))
    ELSE InterruptCaught(cl.E.connection_open)

\* KeyboardInterrupt while a URL is being handled: between two timing
\* rounds, where no handler on the way catches it (they are all `except
\* Exception` or narrower), or inside run_attack, whose `except Exception`
\* lets it through to __exit__
Interrupt ==
    /\ ctl.pc \in InUrl
    /\ \/ InterruptCaught(FALSE)
       \/ /\ ctl.pc = "while"
          /\ KeepFollowing(ctl.following_redirects, ctl.redirects_followed)
          /\ \E exitFail \in BOOLEAN :
                InterruptInRound(close(connect(NewEngine, "ok").E, exitFail))
    /\ UNCHANGED <<cbVars, engineVars, anVars>>

\* save_dictionaries(SITE, crawler)
Save ==
    /\ ctl.pc = "save"
    /\ ctl' = [ctl EXCEPT !.pc = "done"]
    /\ statistics' = [statistics EXCEPT !.saved = TRUE]
    /\ UNCHANGED <<sent_requests, wireLog, urlLog, request1, request2, faults>>
    /\ UNCHANGED <<cbVars, engineVars, anVars>>

CtlNext ==
    \/ NextUrl
    \/ Visit
    \/ Mode
    \/ NewPair
    \/ Round
    \/ LeaveLoop
    \/ Attack
    \/ Analysis
    \/ Output
    \/ Interrupt
    \/ Save

SpecCtl == CtlInit /\ [][CtlNext]_vars

---------------------------------------------------------------------------
(* Properties of the experiment controllers.                               *)

PATH == <<":","p","a","t","h">>

\* the two header lists the last timing round put on the wire
OnWire == Len(wireLog.last) = 2

\* C5: in every pair of the randomized round the two requests, as they
\* reached the socket, differ in the query token of :path and in the value
\* of every header of TEST_HEADERS.
C5_RandomizedPairIsIndependent ==
    (ctl.phase = "randomized" /\ OnWire) =>
        /\ DictGet(wireLog.last[1], PATH) # DictGet(wireLog.last[2], PATH)
        /\ \A i \in DOMAIN TEST_HEADERS :
            DictGet(wireLog.last[1], TEST_HEADERS[i]) # DictGet(wireLog.last[2], TEST_HEADERS[i])

\* C6: in a fixed round, request 2 of the first timing round of every pair
\* reaches the socket with the header list (URL and header values) that
\* request 2 of the round's first pair had.
C6_FixedRequestIsFixed ==
    (ctl.phase = "fixed" /\ OnWire /\ wireLog.rounds = 1) =>
        wireLog.last[2] = wireLog.first2

\* C7: the redirect loop of a pair runs at most MAX_REDIRECTS timing rounds;
\* a pair whose MAX_REDIRECTS rounds were all redirects has no sample
\* recorded, and the step the controller takes from its loop then (a
\* keyboard interrupt aside) is to the next pair, with the buckets and
\* statistics as they were.
C7_RedirectLoopIsBounded ==
    /\ [](wireLog.rounds <= MAX_REDIRECTS)
    /\ [](ctl.redirects_followed = MAX_REDIRECTS => ~wireLog.recorded)
    /\ [][(ctl.pc = "while" /\ ctl.redirects_followed = MAX_REDIRECTS /\ ~Interrupt) =>
            /\ ctl'.pc = "pair"
            /\ sent_requests' = sent_requests
            /\ statistics' = statistics
            /\ urlLog' = urlLog]_vars

\* C7 witness: a pair of preliminary-experiment.py was sent MAX_REDIRECTS
\* times, the later times to the URL its redirect names, each answer was a
\* redirect, and the controller is back at the top of its pair loop without
\* a sample of that pair.
C7_Witness ==
    /\ ctl.script = "pre"
    /\ ctl.pc = "pair"
    /\ ctl.i >= 1
    /\ wireLog.rounds = MAX_REDIRECTS
    /\ ctl.redirects_followed = MAX_REDIRECTS
    /\ wireLog.retry.went1 = wireLog.retry.told1
    /\ wireLog.retry.told1 = URL_ROOT
    /\ ~wireLog.recorded
    /\ sent_requests.fixed = <<>>

\* C8: when a response of a pair was a 301/302 with an absolute Location,
\* the next timing round of the pair sends that request to the Location:
\* request 1 to the Location of response 1, request 2 to that of response 2.
C8_RetryGoesToLocation ==
    /\ wireLog.retry.told1 # None => wireLog.retry.went1 = wireLog.retry.told1
    /\ wireLog.retry.told2 # None => wireLog.retry.went2 = wireLog.retry.told2

\* C9: a URL during whose handling an exception was raised has exactly one
\* entry in statistics['errors'], and its handling ended there, with the
\* crawl loop going on.
C9_ExceptionGivesOneEntry ==
    \A i \in DOMAIN urlLog :
        urlLog[i].raised > 0 =>
            /\ urlLog[i].entries = 1
            /\ urlLog[i].how \in {"handler", "continue"}
\* C20: a URL during whose handling a keyboard interrupt came in is the
\* last one the run handled: the engine of the interrupted round has its
\* connection closed, the crawl loop is left, and the run ends only after
\* save_dictionaries has written the queue, the visited set and the
\* statistics.
C20_InterruptClosesAndSaves ==
    /\ \A i \in DOMAIN urlLog :
        urlLog[i].interrupted =>
            /\ i = Len(urlLog)
            /\ ~urlLog[i].open
            /\ ctl.pc \in {"save", "done"}
    /\ ctl.pc = "done" => statistics.saved

\* C25: in the fixed round of the preliminary experiment, request 2 of the
\* first pair transmitted goes to the URL the priming requested over
\* ordinary HTTP (cache_busted_url).
C25_FixedRequestIsThePrimedUrl ==
    (/\ ctl.script \in {"pre", "pre_strong"}
     /\ ctl.phase = "fixed"
     /\ wireLog.first2 # NoHeaders)
        => UrlOf(wireLog.first2) = ctl.attack_url

\* C27: no URL ends in the outer exception handler, with an entry in
\* statistics['errors'], because of a pair of which exactly one response
\* was a 301/302 and the other carried no location header.
C27_LoneRedirectDoesNotRaise ==
    \A i \in DOMAIN urlLog : ~urlLog[i].lone

REDIRECT_CODES == { <<"3","0","1">>, <<"3","0","2">>, <<"3","0","3">>,
                    <<"3","0","7">>, <<"3","0","8">> }

\* C28: no sample of a randomized or fixed bucket has a 301, 302, 303, 307
\* or 308 as the status of its first or of its second response.
C28_NoRedirectInBuckets ==
    \A phase \in {"randomized", "fixed"} :
        \A i \in DOMAIN sent_requests[phase] :
            /\ sent_requests[phase][i].first.status_code \notin REDIRECT_CODES
            /\ sent_requests[phase][i].second.status_code \notin REDIRECT_CODES

---------------------------------------------------------------------------
(* lib/analysis.py: Analysis.  A sample is the dict analyse builds of a    *)
(* request pair, [time_diff, cache_status_1, cache_status_2]; time_diff is *)
(* the value round(..., 2) gives, counted in hundredths of a millisecond.  *)
(* The comparisons of means and deviations are made exactly, on integers:  *)
(* with n = len(data) and S = sum of the time_diffs,                       *)
(*     abs(x - average) < factor * std                                     *)
(* is  n * (n*x - S)^2 < factor^2 * SUM (n*x_i - S)^2.                     *)
(* stats.ttest_ind is outside the repository: its p-value is an argument,  *)
(* [nan, milli], nan for a NaN and milli the value in thousandths.         *)

FACTOR == 2

\* alpha = 0.01, in thousandths
ALPHA_MILLI == 10

AnSample(time_diff, cache_status_1, cache_status_2) ==
    [time_diff |-> time_diff, cache_status_1 |-> cache_status_1,
     cache_status_2 |-> cache_status_2]

RECURSIVE SumDiffs(_)
SumDiffs(data) ==
    IF data = <<>> THEN 0 ELSE Head(data).time_diff + SumDiffs(Tail(data))

\* n^2 times the sum of the squared distances to the average
RECURSIVE SumSquares(_, _, _)
SumSquares(data, n, S) ==
    IF data = <<>> THEN 0
    ELSE (n * Head(data).time_diff - S) * (n * Head(data).time_diff - S)
         + SumSquares(Tail(data), n, S)

\* a point that lies no farther than factor * std from the average
NotFarther(x, n, S, Q) == n * (n * x - S) * (n * x - S) <= FACTOR * FACTOR * Q

\* abs(request_pair['time_diff'] - average) < factor * std
Within(x, n, S, Q) == n * (n * x - S) * (n * x - S) < FACTOR * FACTOR * Q

Kept(data, n, S, Q) == SelectSeq(data, LAMBDA d : Within(d.time_diff, n, S, Q))

\* the result of a call: a value, or the exception it raised
Returned(value) == [raised |-> FALSE, value |-> value]

Raised == [raised |-> TRUE, value |-> <<>>]

\* Analysis.remove_outliers: the division by len(data) raises
\* ZeroDivisionError on an empty list
remove_outliers(data) ==
    IF Len(data) = 0 THEN Raised
    ELSE Returned(Kept(data, Len(data), SumDiffs(data),
                       SumSquares(data, Len(data), SumDiffs(data))))

PValue(nan, milli) == [nan |-> nan, milli |-> milli]

\* `p <= alpha`: false for a NaN
Significant_Strict(p) == ~p.nan /\ p.milli < ALPHA_MILLI

Significant(p) == ~p.nan /\ p.milli <= ALPHA_MILLI

\* the verdict once both trimmed lists are there; "None" is the bare return
Verdict(_randomized, _fixed, p) ==
    IF Len(_randomized) = 0 \/ Len(_fixed) = 0 THEN "None"
    ELSE IF SumDiffs(_fixed) > 0 THEN "NO cache"
    ELSE IF Significant(p) THEN "CACHE"
    ELSE "NO cache"

\* Analysis.predict; p is what stats.ttest_ind gives when it is called
predict(randomized, fixed, p) ==
    IF remove_outliers(randomized).raised \/ remove_outliers(fixed).raised THEN Raised
    ELSE Returned(Verdict(remove_outliers(randomized).value,
                          remove_outliers(fixed).value, p))

\* enhancing_factor = 5
ENHANCING_FACTOR == 5

\* a variant that also multiplies when the average is zero
Amplified_OrZero(_fixed, k) ==
    IF SumDiffs(_fixed) <= 0
    THEN [i \in DOMAIN _fixed |-> [_fixed[i] EXCEPT !.time_diff = @ * k]]
    ELSE _fixed

\* the second list handed to stats.ttest_ind: time_diff * enhancing_factor
\* if fixed_average < 0 else time_diff (the average of a non-empty list
\* has the sign of its sum); k is the enhancing factor
Amplified(_fixed, k) ==
    IF SumDiffs(_fixed) < 0
    THEN [i \in DOMAIN _fixed |-> [_fixed[i] EXCEPT !.time_diff = @ * k]]
    ELSE _fixed

\* Analysis.predict with the enhancing factor k; T is stats.ttest_ind as a
\* function of its second list (the first, _randomized, does not depend on
\* the factor)
predict_with(randomized, fixed, k, T) ==
    IF remove_outliers(randomized).raised \/ remove_outliers(fixed).raised THEN Raised
    ELSE Returned(Verdict(remove_outliers(randomized).value, remove_outliers(fixed).value,
                          T[Amplified(remove_outliers(fixed).value, k)]))

HIT == "HIT"

MISS == "MISS"

\* one (url, extension, mode) entry of the data: keys tells which of the
\* buckets 'randomized' and 'fixed' the entry has; a sample of a bucket is
\* [time_diff, cache_status_1, cache_status_2], the cache statuses those of
\* its 'first' and 'second'
AnEntry(url, mode, keys, randomized, fixed) ==
    [url |-> url, mode |-> mode, keys |-> keys, randomized |-> randomized, fixed |-> fixed]

HasStatus(data, status) ==
    \E i \in DOMAIN data : data[i].cache_status_1 = status \/ data[i].cache_status_2 = status

CountSecond(data, status) ==
    Cardinality({i \in DOMAIN data : data[i].cache_status_2 = status})

\* label = 'Unknown', then 'NO cache', then 'CACHE'
Label(randomized, fixed) ==
    IF CountSecond(fixed, HIT) > CountSecond(fixed, MISS) THEN "CACHE"
    ELSE IF \/ HasStatus(randomized, HIT) \/ HasStatus(fixed, HIT)
            \/ HasStatus(randomized, MISS) \/ HasStatus(fixed, MISS)
    THEN "NO cache"
    ELSE "Unknown"

\* analysis[url][extension][mode]: the {} the entry starts with, or the
\* dict with its label and statistics_prediction
NoVerdict == [present |-> FALSE, label |-> "None", statistics_prediction |-> "None"]

WithVerdict(label, statistics_prediction) ==
    [present |-> TRUE, label |-> label, statistics_prediction |-> statistics_prediction]

\* what analyse returns: None, or the analysis, one item per entry
AnNone == [returned |-> "None", analysis |-> <<>>]

AnReturn(analysis) == [returned |-> "analysis", analysis |-> analysis]

\* a variant that passes over an entry only when it has one of the two keys
LacksBucket_OneOnly(entry) == entry.keys \in {"no_randomized", "no_fixed"}

\* if not 'randomized' in data[url][extension][mode] or
\*     not 'fixed' in data[url][extension][mode]
LacksBucket(entry) == entry.keys # "both"

\* the loops of analyse from entry i on; ps[i] is the p-value predict gets
\* for entry i
RECURSIVE AnalyseFrom(_, _, _, _)
AnalyseFrom(data, ps, i, analysis) ==
    IF i > Len(data) THEN AnReturn(analysis)
    ELSE IF LacksBucket(data[i])
    THEN AnalyseFrom(data, ps, i + 1, Append(analysis, NoVerdict))
    ELSE IF Len(data[i].fixed) = 0 \/ Len(data[i].randomized) = 0 THEN AnNone
    ELSE IF predict(data[i].randomized, data[i].fixed, ps[i]).value = "None" THEN AnNone
    ELSE AnalyseFrom(data, ps, i + 1,
                     Append(analysis,
                            WithVerdict(Label(data[i].randomized, data[i].fixed),
                                        predict(data[i].randomized, data[i].fixed,
                                                ps[i]).value)))

\* Analysis.analyse
analyse(data, ps) == AnalyseFrom(data, ps, 1, <<>>)

---------------------------------------------------------------------------
(* The calls on an Analysis object: a run makes one call of               *)
(* remove_outliers, predict or analyse, on an argument of the sets below.  *)

\* the longest list handed to remove_outliers, to predict and to analyse
MaxSamples == 5
MaxPredictSamples == 3
MaxBucket == 2

\* the entries of a bundle
MaxEntries == 2

\* the enhancing factors compared with the one of the code: 2..MaxFactor
MaxFactor == 6

\* time_diffs, in hundredths of a millisecond
AnValues == {-5, 0, 5}

AnBucketValues == {-5, 0}

SeqsUpTo(S, n) == UNION {[1..k -> S] : k \in 0..n}

Plain(S) == {AnSample(t, "-", "-") : t \in S}

\* the p-values: a NaN, one below alpha, alpha, one above
PValues == {PValue(TRUE, 0), PValue(FALSE, ALPHA_MILLI - 1), PValue(FALSE, ALPHA_MILLI),
            PValue(FALSE, ALPHA_MILLI + 1)}

AnPValues == {PValue(FALSE, ALPHA_MILLI), PValue(FALSE, ALPHA_MILLI + 1)}

\* the cache statuses of the samples of an entry: none reported, or a miss
\* then a hit
WithStatus(times, cs) ==
    [i \in DOMAIN times |-> AnSample(times[i], cs[1], cs[2])]

AnStatuses == {<<"-", "-">>, <<MISS, HIT>>}

\* the URLs of the entries of a bundle, in the order of the data
AnUrls == <<URL_PAGE, URL_ROOT, URL_ROOT>>

\* the entries of a URL: one bucket missing, or both there
AnEntries(url) ==
    {AnEntry(url, MODES[1], keys, <<>>, <<>>) : keys \in {"no_randomized", "no_fixed"}}
    \cup {AnEntry(url, MODES[1], "both", WithStatus(r, cs), WithStatus(f, cs)) :
            r \in SeqsUpTo(AnBucketValues, MaxBucket),
            f \in SeqsUpTo(AnBucketValues, MaxBucket),
            cs \in AnStatuses}

\* the lists stats.ttest_ind can get as its second argument from predict on
\* fixed, with the factor of the code or with k
TTestLists(fixed, k) ==
    {Amplified(remove_outliers(fixed).value, ENHANCING_FACTOR),
     Amplified(remove_outliers(fixed).value, k)}

\* URLs over http and with a port written in them
URL_HTTP == <<"h","t","t","p",":","/","/","t","/">>
URL_HTTP_8080 == <<"h","t","t","p",":","/","/","t",":","8","0","8","0","/">>
URL_HTTPS_8443 == <<"h","t","t","p","s",":","/","/","t",":","8","4","4","3","/">>

PortUrls == {URL_ROOT, URL_HTTP, URL_HTTP_8080, URL_HTTPS_8443}

\* the longest fixed list a label is computed from
MaxLabelSamples == 3

\* the samples a label is computed from: on the first response no status or
\* a miss, on the second no status, a miss or a hit
LabelSamples == {AnSample(0, c1, c2) : c1 \in {"-", MISS}, c2 \in {"-", MISS, HIT}}

LabelRandomized == {<<AnSample(0, c, c)>> : c \in {"-", MISS, HIT}}

\* the call a run makes
AnCall(fn, args) == [op |-> "call", fn |-> fn, args |-> args]

AnInit ==
    /\ CBIdle
    /\ H2Idle
    /\ CtlIdle
    /\ \/ \E data \in SeqsUpTo(Plain(AnValues), MaxSamples) :
            an = AnCall("remove_outliers", [data |-> data])
       \/ \E randomized \in SeqsUpTo(Plain(AnValues), MaxPredictSamples),
             fixed \in SeqsUpTo(Plain(AnValues), MaxPredictSamples),
             p \in PValues :
            an = AnCall("predict", [randomized |-> randomized, fixed |-> fixed, p |-> p])
       \/ \E randomized \in SeqsUpTo(Plain(AnValues), MaxBucket),
             fixed \in SeqsUpTo(Plain(AnValues), MaxPredictSamples),
             k \in 2..MaxFactor :
            \E T \in [TTestLists(fixed, k) -> AnPValues] :
                an = AnCall("predict_with",
                            [randomized |-> randomized, fixed |-> fixed, k |-> k, T |-> T])
       \/ \E n \in 1..MaxEntries :
            \E d \in [1..n -> AnEntries(URL_PAGE)], ps \in [1..n -> AnPValues] :
                an = AnCall("analyse",
                            [data |-> [i \in 1..n |-> [d[i] EXCEPT !.url = AnUrls[i]]],
                             ps |-> ps])
       \/ \E url \in PortUrls :
            an = AnCall("set_url", [url |-> url])
       \/ \E randomized \in LabelRandomized,
             fixed \in SeqsUpTo(LabelSamples, MaxLabelSamples) \ {<<>>} :
            an = AnCall("label", [randomized |-> randomized, fixed |-> fixed])

AnRemoveOutliers ==
    /\ an.op = "call" /\ an.fn = "remove_outliers"
    /\ an' = [op |-> "remove_outliers", data |-> an.args.data,
              out |-> remove_outliers(an.args.data)]
    /\ UNCHANGED <<cbVars, h2Vars, ctlVars>>

AnPredict ==
    /\ an.op = "call" /\ an.fn = "predict"
    /\ an' = [op |-> "predict", randomized |-> an.args.randomized,
              fixed |-> an.args.fixed, p |-> an.args.p,
              out |-> predict(an.args.randomized, an.args.fixed, an.args.p)]
    /\ UNCHANGED <<cbVars, h2Vars, ctlVars>>

\* predict with the enhancing factor of the code and with the factor k, on
\* the same lists and with the same t-test
AnPredictWith ==
    /\ an.op = "call" /\ an.fn = "predict_with"
    /\ an' = [op |-> "predict_with", randomized |-> an.args.randomized,
              fixed |-> an.args.fixed, k |-> an.args.k,
              handed |-> Amplified(remove_outliers(an.args.fixed).value, an.args.k),
              out |-> predict_with(an.args.randomized, an.args.fixed,
                                   ENHANCING_FACTOR, an.args.T),
              out_k |-> predict_with(an.args.randomized, an.args.fixed,
                                     an.args.k, an.args.T)]
    /\ UNCHANGED <<cbVars, h2Vars, ctlVars>>

AnAnalyse ==
    /\ an.op = "call" /\ an.fn = "analyse"
    /\ an' = [op |-> "analyse", data |-> an.args.data, ps |-> an.args.ps,
              out |-> analyse(an.args.data, an.args.ps)]
    /\ UNCHANGED <<cbVars, h2Vars, ctlVars>>

\* H2Request(method, url, headers), whose constructor calls set_url(url)
AnSetUrl ==
    /\ an.op = "call" /\ an.fn = "set_url"
    /\ an' = [op |-> "set_url", url |-> an.args.url,
              request |-> H2Request(GET, an.args.url, "own_headers")]
    /\ UNCHANGED <<cbVars, h2Vars, ctlVars>>

\* the label of an entry with both lists non-empty and a prediction
AnLabel ==
    /\ an.op = "call" /\ an.fn = "label"
    /\ an' = [op |-> "label", randomized |-> an.args.randomized, fixed |-> an.args.fixed,
              label |-> Label(an.args.randomized, an.args.fixed)]
    /\ UNCHANGED <<cbVars, h2Vars, ctlVars>>

AnNext ==
    \/ AnRemoveOutliers
    \/ AnPredict
    \/ AnPredictWith
    \/ AnAnalyse
    \/ AnSetUrl
    \/ AnLabel

SpecAn == AnInit /\ [][AnNext]_vars

---------------------------------------------------------------------------
(* Properties of the analysis.                                             *)

\* the prediction of entry e is defined: both buckets are there, neither is
\* empty, and neither is empty once its outliers are removed
Sufficient(e) ==
    /\ e.keys = "both"
    /\ Len(e.randomized) > 0 /\ Len(e.fixed) > 0
    /\ Len(remove_outliers(e.randomized).value) > 0
    /\ Len(remove_outliers(e.fixed).value) > 0

\* C11: in what analyse returns for a bundle, an entry with insufficient
\* data has no verdict, and every entry whose prediction is defined has its
\* verdict, the value predict gives for its two buckets.
C11_VerdictsAreIndependent ==
    an.op = "analyse" =>
        \A i \in DOMAIN an.data :
            IF Sufficient(an.data[i])
            THEN /\ an.out.returned = "analysis"
                 /\ an.out.analysis[i].present
                 /\ an.out.analysis[i].statistics_prediction =
                        predict(an.data[i].randomized, an.data[i].fixed, an.ps[i]).value
            ELSE an.out.returned = "analysis" => ~an.out.analysis[i].present

\* the two lists of predict after remove_outliers
Trimmed(data) == remove_outliers(data).value

BothTrimmed ==
    Len(Trimmed(an.randomized)) > 0 /\ Len(Trimmed(an.fixed)) > 0

\* C12: a call of predict that returns gives no verdict exactly when one of
\* the trimmed lists is empty; otherwise 'NO cache' when the sum (hence the
\* mean) of the trimmed fixed list is positive, whatever the p-value, and
\* else 'CACHE' exactly when the p-value is a number <= alpha.
C12_PredictDecides ==
    (an.op = "predict" /\ ~an.out.raised) =>
        /\ an.out.value = "None" <=> ~BothTrimmed
        /\ BothTrimmed =>
            /\ an.out.value \in {"CACHE", "NO cache"}
            /\ SumDiffs(Trimmed(an.fixed)) > 0 => an.out.value = "NO cache"
            /\ SumDiffs(Trimmed(an.fixed)) <= 0 =>
                (an.out.value = "CACHE" <=> (~an.p.nan /\ an.p.milli <= ALPHA_MILLI))

\* C12 witness: predict was called with a p-value of exactly alpha on lists
\* that keep samples and whose trimmed fixed mean is negative, and returned
\* 'CACHE'.
C12_Witness ==
    /\ an.op = "predict"
    /\ ~an.out.raised
    /\ BothTrimmed
    /\ SumDiffs(Trimmed(an.fixed)) < 0
    /\ ~an.p.nan /\ an.p.milli = ALPHA_MILLI
    /\ an.out.value = "CACHE"

\* C13: remove_outliers returns the points of its list that lie no farther
\* than 2 sigma from the mean, in their order: a list of equal values is
\* returned unchanged.
C13_KeepsWithinTwoSigma ==
    (an.op = "remove_outliers" /\ ~an.out.raised) =>
        an.out.value = SelectSeq(an.data,
                                 LAMBDA d : NotFarther(d.time_diff, Len(an.data),
                                                       SumDiffs(an.data),
                                                       SumSquares(an.data, Len(an.data),
                                                                  SumDiffs(an.data))))

\* C22: when the average of the trimmed fixed samples is >= 0, predict
\* gives the same verdict with any enhancing factor k > 1 as with 5, so no
\* 'NO cache' becomes 'CACHE'; the fixed samples reach the t-test
\* multiplied only when that average is < 0, and as they are when it is 0.
C22_FactorOnlyBelowZero ==
    (an.op = "predict_with" /\ ~an.out.raised /\ BothTrimmed) =>
        /\ SumDiffs(Trimmed(an.fixed)) >= 0 =>
            /\ an.out_k.value = an.out.value
            /\ an.handed = Trimmed(an.fixed)
        /\ an.handed # Trimmed(an.fixed) => SumDiffs(Trimmed(an.fixed)) < 0

\* C22 witness: the trimmed fixed samples are not all zero and average to
\* zero, the factor compared is not 5, and predict went through the t-test
\* to 'NO cache'.
C22_Witness ==
    /\ an.op = "predict_with"
    /\ ~an.out.raised
    /\ BothTrimmed
    /\ SumDiffs(Trimmed(an.fixed)) = 0
    /\ \E i \in DOMAIN Trimmed(an.fixed) : Trimmed(an.fixed)[i].time_diff # 0
    /\ an.k # ENHANCING_FACTOR
    /\ an.out.value = "NO cache"

---------------------------------------------------------------------------
(* experiment-wcd.py, the end of a mode iteration: sent_requests, which    *)
(* keeps the entries of every URL and mode handled so far, is analysed as  *)
(* a whole, the analysis is stored in statistics and scanned for a 'CACHE' *)
(* prediction.  A run is a sequence of mode iterations, each adding one    *)
(* entry; the p-value stats.ttest_ind gives for an entry is drawn when the *)
(* entry is made and is the same in every later analysis, the data of the  *)
(* entry being the same.                                                   *)

\* mode iterations of a run
MaxModes == 3

\* the buckets an iteration leaves: empty, one sample, two samples
RunBuckets == {<<>>, <<AnSample(-5, "-", "-")>>,
               <<AnSample(-5, "-", "-"), AnSample(0, "-", "-")>>}

RunEntries(url, mode) ==
    {AnEntry(url, mode, keys, <<>>, <<>>) : keys \in {"no_randomized", "no_fixed"}}
    \cup {AnEntry(url, mode, "both", r, f) : r \in RunBuckets, f \in RunBuckets}

\* the URL and the mode of the i-th iteration: the modes of a URL, then
\* the next URL
RunUrl(i) == IF i <= 2 THEN URL_PAGE ELSE URL_ROOT

RunMode(i) == MODES[((i - 1) % 2) + 1]

\* statistics as main() sets it up: no analysis yet, vulnerable False
\* identical: the iterations whose identicality check was true
RunStart == [op |-> "run", data |-> <<>>, ps |-> <<>>, stored |-> FALSE,
             analysis |-> <<>>, vulnerable |-> FALSE, raised |-> FALSE,
             identical |-> {}]

RunInit ==
    /\ CBIdle
    /\ H2Idle
    /\ CtlIdle
    /\ an = RunStart

\* analysis[_url][_extension][_mode]['statistics_prediction'] == 'CACHE';
\* on an entry that is {} the subscript raises KeyError, which the scan
\* catches and passes over
IsCacheVerdict(item) == item.present /\ item.statistics_prediction = "CACHE"

\* the scan of the analysis from item i on; skip is the URL whose inner
\* loop the `break` has left
RECURSIVE ScanFrom(_, _, _, _, _)
ScanFrom(analysis, data, i, skip, vulnerable) ==
    IF i > Len(analysis) THEN vulnerable
    ELSE IF data[i].url = skip THEN ScanFrom(analysis, data, i + 1, skip, vulnerable)
    ELSE IF IsCacheVerdict(analysis[i])
    THEN ScanFrom(analysis, data, i + 1, data[i].url, TRUE)
    ELSE ScanFrom(analysis, data, i + 1, skip, vulnerable)

\* a variant that stores whatever analyse returned
Analysed_Always(rn, out) ==
    [rn EXCEPT !.stored = TRUE, !.analysis = out.analysis,
                !.vulnerable = ScanFrom(out.analysis, rn.data, 1, None, rn.vulnerable)]

\* analysis = Analysis().analyse(SITE, sent_requests); if not analysis:
\* continue; statistics['analysis'] = analysis; the scan
Analysed(rn, out) ==
    IF out.returned = "None" \/ out.analysis = <<>> THEN rn
    ELSE [rn EXCEPT !.stored = TRUE, !.analysis = out.analysis,
                     !.vulnerable = ScanFrom(out.analysis, rn.data, 1, None, rn.vulnerable)]

\* sent_requests with the entry of one more iteration
WithEntry(rn, e, p) == [rn EXCEPT !.data = Append(@, e), !.ps = Append(@, p)]

\* a mode iteration that reaches the analysis
ModeAnalysed ==
    /\ an.op = "run"
    /\ Len(an.data) < MaxModes
    /\ \E e \in RunEntries(RunUrl(Len(an.data) + 1), RunMode(Len(an.data) + 1)),
          p \in AnPValues :
        \E rn \in {WithEntry(an, e, p)} :
            \E out \in {analyse(rn.data, rn.ps)} :
                an' = [Analysed(rn, out) EXCEPT !.raised = FALSE]
    /\ UNCHANGED <<cbVars, h2Vars, ctlVars>>

\* a mode iteration that ends before the analysis: a `continue` (identical
\* responses, a redirect away from the attack URL) or an exception on the
\* way to the outer handler; what the rounds have recorded stays in
\* sent_requests
ModeLeft ==
    /\ an.op = "run"
    /\ Len(an.data) < MaxModes
    /\ \E e \in RunEntries(RunUrl(Len(an.data) + 1), RunMode(Len(an.data) + 1)),
          p \in AnPValues, raised \in BOOLEAN :
        an' = [WithEntry(an, e, p) EXCEPT !.raised = raised]
    /\ UNCHANGED <<cbVars, h2Vars, ctlVars>>

\* a mode iteration whose two attack URLs gave identical responses:
\* sent_requests[url][extension][mode] = {} has been made, then `continue`
ModeIdentical ==
    /\ an.op = "run"
    /\ Len(an.data) < MaxModes
    /\ \E e \in {AnEntry(RunUrl(Len(an.data) + 1), RunMode(Len(an.data) + 1),
                          "none", <<>>, <<>>)} :
        an' = [WithEntry(an, e, PValue(TRUE, 0)) EXCEPT
                    !.raised = FALSE, !.identical = @ \cup {Len(an.data) + 1}]
    /\ UNCHANGED <<cbVars, h2Vars, ctlVars>>

RunNext == ModeAnalysed \/ ModeLeft \/ ModeIdentical

SpecRun == RunInit /\ [][RunNext]_vars

\* C21: statistics['vulnerable'] is true exactly when some entry of
\* statistics['analysis'] has the statistics_prediction 'CACHE', after any
\* sequence of mode iterations; and once true it stays true.
C21_VulnerableIffCachePrediction ==
    /\ [](an.op = "run" =>
            (an.vulnerable <=>
                (an.stored /\ \E i \in DOMAIN an.analysis :
                                /\ an.analysis[i].present
                                /\ an.analysis[i].statistics_prediction = "CACHE")))
    /\ [][(an.op = "run" /\ an.vulnerable) => an'.vulnerable]_vars

\* C21 witness: the first iteration gave a 'CACHE' prediction, the second
\* left an entry analyse finds no verdict for, so that the third analysis
\* returned nothing, and statistics still has the analysis of the first.
C21_Witness ==
    /\ an.op = "run"
    /\ Len(an.data) = 3
    /\ an.vulnerable
    /\ Len(an.analysis) = 1
    /\ analyse(an.data, an.ps).returned = "None"
    /\ ~an.raised

---------------------------------------------------------------------------
(* preliminary-experiment.py, one URL from its randomized round on: the    *)
(* randomized round, the priming of the fixed variant, the fixed round,    *)
(* the HIT filter and the output file.  A response is cut to its status    *)
(* code and to what wcde.cache_headers_heuristics makes of its headers     *)
(* ('HIT', 'MISS' or '-'), a timing round to what run_attack returns or    *)
(* raises; the URLs and the wire are followed in the controllers'          *)
(* specification above.  One step is one turn of a `for _ in               *)
(* range(num_requests)` loop with its redirect loop, the priming, or the   *)
(* end of the URL.                                                         *)

\* num_requests of the largest run
MaxPreRequests == 6

\* `len(sent_requests['fixed']) < 5`
MIN_FIXED == 5

\* `requests_sent < 5`
MAX_PRIME_RETRIES == 5

PreResponse(status_code, cache_status) ==
    [status_code |-> status_code, cache_status |-> cache_status]

\* the dict appended to a bucket, cut to status code and cache status
PreSample(h1, h2) == [first |-> h1, second |-> h2]

\* what one timing round gives the controller: kind "raise" (an exception
\* leaves the with block), "none" (run_attack returned no result) or
\* "result" (one result, with the two responses)
PreRound(kind, h1, h2) == [kind |-> kind, h1 |-> h1, h2 |-> h2]

NoResponse == PreResponse("", "")

PreRedirected == PreRound("result", PreResponse("302", "MISS"), PreResponse("302", "MISS"))

\* the last timing round of a pair of the randomized round: both MISS, a
\* HIT for request 1, no cache header on response 1, no result, an exception
RandomizedEnds ==
    { PreRound("result", PreResponse("200", "MISS"), PreResponse("200", "MISS")),
      PreRound("result", PreResponse("200", "HIT"), PreResponse("200", "MISS")),
      PreRound("result", PreResponse("200", "-"), PreResponse("200", "MISS")),
      PreRound("none", NoResponse, NoResponse),
      PreRound("raise", NoResponse, NoResponse) }

\* the last timing round of a pair of the fixed round
FixedEnds ==
    { PreRound("result", PreResponse("200", "MISS"), PreResponse("200", "HIT")),
      PreRound("result", PreResponse("200", "HIT"), PreResponse("200", "HIT")),
      PreRound("none", NoResponse, NoResponse),
      PreRound("raise", NoResponse, NoResponse) }

\* the timing rounds of one pair: the last one at once, after one redirect,
\* or redirects only
PairRounds(ends) ==
    {<<e>> : e \in ends} \cup {<<PreRedirected, e>> : e \in ends}
        \cup {[k \in 1..MAX_REDIRECTS |-> PreRedirected]}

PreIsRedirect(h) == h.status_code \in {"301", "302"}

\* the body of `for result in results` of the randomized round: the cache
\* statuses are looked at first
RandomizedResult(h1, h2) ==
    IF h1.cache_status \notin {"MISS", "HIT"} \/ h2.cache_status \notin {"MISS", "HIT"}
    THEN "break"
    ELSE IF PreIsRedirect(h1) \/ PreIsRedirect(h2) THEN "redirect"
    ELSE "sample"

\* the body of `for result in results` of the fixed round
FixedResult(h1, h2) ==
    IF PreIsRedirect(h1) \/ PreIsRedirect(h2) THEN "redirect" ELSE "sample"

PairEnded(kind, sample) == [kind |-> kind, sample |-> sample]

\* `while following_redirects and redirects_followed < 5` on the timing
\* rounds from the k-th on: the sample the pair adds to its bucket, none, or
\* an exception
RECURSIVE RedirectLoop(_, _, _, _, _)
RedirectLoop(phase, rounds, k, following_redirects, redirects_followed) ==
    IF ~KeepFollowing(following_redirects, redirects_followed)
    THEN PairEnded("none", <<>>)
    ELSE IF rounds[k].kind # "result" THEN PairEnded(rounds[k].kind, <<>>)
    ELSE IF (IF phase = "randomized" THEN RandomizedResult(rounds[k].h1, rounds[k].h2)
             ELSE FixedResult(rounds[k].h1, rounds[k].h2)) = "redirect"
    THEN RedirectLoop(phase, rounds, k + 1, TRUE, redirects_followed + 1)
    ELSE IF phase = "randomized" /\ RandomizedResult(rounds[k].h1, rounds[k].h2) = "break"
    THEN PairEnded("none", <<>>)
    ELSE PairEnded("sample", <<PreSample(rounds[k].h1, rounds[k].h2)>>)

\* the vary argument of the priming call: with strong_cache_busting
\* `response.headers.get('vary') if 'vary' in response.headers else ''`,
\* without it response.headers.get('vary'), None when there is no header
PrimeVary(strong, has_vary) ==
    IF has_vary THEN <<"A","c","c","e","p","t">>
    ELSE IF strong THEN <<>> ELSE None

\* the cache_bust_request call of the priming raises
PrimeRaises(strong, has_vary) ==
    cache_bust_request(CBState(<<>>, 0, <<>>), InitHeap, URL_PAGE, "headers", "cbr_cookies",
                       PrimeVary(strong, has_vary), strong).raised

\* the first browser.get and the while loop after it; answers[k] is the
\* cache status of the response to the k-th request, gets the requests
\* made so far
RECURSIVE PrimeLoop(_, _, _)
PrimeLoop(answers, gets, requests_sent) ==
    IF answers[gets] # "HIT" /\ requests_sent < MAX_PRIME_RETRIES
    THEN PrimeLoop(answers, gets + 1, requests_sent + 1)
    ELSE [gets |-> gets, cache_status |-> answers[gets]]

\* what the site answers to the requests of the priming: HIT from the k-th
\* request on or at the k-th only, or never
PrimeAnswers ==
    { [i \in 1..(MAX_PRIME_RETRIES + 1) |->
         IF i < k THEN miss ELSE IF i = k THEN "HIT" ELSE after] :
      k \in 1..(MAX_PRIME_RETRIES + 2), miss \in {"MISS", "-"}, after \in {"HIT", "MISS"} }

\* list.remove(x): the first element equal to x goes
RECURSIVE RemoveFirst(_, _)
RemoveFirst(list, x) ==
    IF list = <<>> THEN <<>>
    ELSE IF Head(list) = x THEN Tail(list)
    ELSE <<Head(list)>> \o RemoveFirst(Tail(list), x)

\* the loop over the copy of the fixed bucket, from its k-th entry on
RECURSIVE DropHits(_, _, _)
DropHits(copy, k, list) ==
    IF k > Len(copy) THEN list
    ELSE DropHits(copy, k + 1,
                  IF copy[k].first.cache_status = "HIT" THEN RemoveFirst(list, copy[k])
                  ELSE list)

\* a variant that writes the file whatever is left
TooFew_Never(fixed) == FALSE

\* `'fixed' in sent_requests and len(sent_requests['fixed']) < 5`
TooFew(fixed) == Len(fixed) < MIN_FIXED

\* the URL at the top of its randomized round.  answers, gets and before
\* are history: what the site would answer to the requests of the priming,
\* how many of them were made, and the fixed bucket as the fixed round
\* left it; file is what json.dump wrote, how the way the URL was left
PreUrlStart(strong, has_vary, num_requests) ==
    [op |-> "pre", pc |-> "randomized", strong |-> strong, has_vary |-> has_vary,
     num_requests |-> num_requests, i |-> 0, randomized |-> <<>>, fixed |-> <<>>,
     answers |-> <<>>, gets |-> 0, before |-> <<>>, file |-> <<>>, tested |-> FALSE,
     how |-> "none", errors |-> 0]

PreUrlInit ==
    /\ CBIdle
    /\ H2Idle
    /\ CtlIdle
    /\ \E strong \in BOOLEAN, has_vary \in BOOLEAN, num_requests \in {1, MaxPreRequests} :
        an = PreUrlStart(strong, has_vary, num_requests)

\* the outer `except Exception`
PreRaised(u) == [u EXCEPT !.pc = "left", !.how = "handler", !.errors = @ + 1]

\* one turn of the loop of a round: the pair, its redirect loop, the sample
PairTurn(u, phase, ended) ==
    IF ended.kind = "raise" THEN PreRaised(u)
    ELSE IF ended.kind = "none" THEN [u EXCEPT !.i = @ + 1, !.answers = <<>>]
    ELSE [u EXCEPT !.i = @ + 1, !.answers = <<>>, ![phase] = @ \o ended.sample]

RandomizedPair ==
    /\ an.op = "pre"
    /\ an.pc = "randomized"
    /\ an.i < an.num_requests
    /\ \E rounds \in PairRounds(RandomizedEnds) :
        an' = PairTurn(an, "randomized", RedirectLoop("randomized", rounds, 1, TRUE, 0))
    /\ UNCHANGED <<cbVars, h2Vars, ctlVars>>

\* the priming once the randomized round is over: the cache_bust_request
\* call, the requests, and `continue` when the last response is no HIT
PrimeFixed ==
    /\ an.op = "pre"
    /\ an.pc = "randomized"
    /\ an.i >= an.num_requests
    /\ \E answers \in PrimeAnswers :
        IF PrimeRaises(an.strong, an.has_vary)
        THEN an' = [PreRaised(an) EXCEPT !.answers = answers]
        ELSE \E r \in {PrimeLoop(answers, 1, 0)} :
                an' = IF r.cache_status # "HIT"
                      THEN [an EXCEPT !.pc = "left", !.how = "continue", !.answers = answers,
                                      !.gets = r.gets]
                      ELSE [an EXCEPT !.pc = "fixed", !.i = 0, !.fixed = <<>>,
                                      !.answers = answers, !.gets = r.gets]
    /\ UNCHANGED <<cbVars, h2Vars, ctlVars>>

FixedPair ==
    /\ an.op = "pre"
    /\ an.pc = "fixed"
    /\ an.i < an.num_requests
    /\ an.randomized # <<>>
    /\ \E rounds \in PairRounds(FixedEnds) :
        an' = PairTurn(an, "fixed", RedirectLoop("fixed", rounds, 1, TRUE, 0))
    /\ UNCHANGED <<cbVars, h2Vars, ctlVars>>

\* the end of the URL after the fixed round: the HIT filter, `continue`
\* when too few samples are left, else the output file (open or json.dump
\* may raise), statistics['tested'] and `break`
PersistOrSkip ==
    /\ an.op = "pre"
    /\ an.pc = "fixed"
    /\ an.i >= an.num_requests \/ an.randomized = <<>>
    /\ \E left \in {DropHits(an.fixed, 1, an.fixed)}, dumped \in BOOLEAN :
        an' = IF TooFew(left)
              THEN [an EXCEPT !.pc = "left", !.how = "continue", !.before = <<an.fixed>>,
                              !.fixed = left, !.answers = <<>>]
              ELSE IF ~dumped
              THEN [PreRaised(an) EXCEPT !.before = <<an.fixed>>, !.fixed = left,
                                         !.answers = <<>>]
              ELSE [an EXCEPT !.pc = "left", !.how = "break", !.before = <<an.fixed>>,
                              !.fixed = left, !.answers = <<>>,
                              !.file = <<[randomized |-> an.randomized, fixed |-> left]>>,
                              !.tested = TRUE]
    /\ UNCHANGED <<cbVars, h2Vars, ctlVars>>

PreNext == RandomizedPair \/ PrimeFixed \/ FixedPair \/ PersistOrSkip

SpecPre == PreUrlInit /\ [][PreNext]_vars

\* the requests at which the site answers the priming with a HIT
HitAt(answers) == {k \in DOMAIN answers : answers[k] = "HIT"}

\* C26: once the randomized round is over, the priming requests the fixed
\* variant until the first response classified HIT, at most 1 + 5 times,
\* and then the fixed round begins; when none of the 6 responses is a HIT
\* all 6 requests are made and the URL is left with `continue`, with no
\* fixed sample and no output file; with or without a Vary header on the
\* warm-up response and with or without strong cache-busting.
C26_PrimingStopsAtFirstHit ==
    (an.op = "pre" /\ an.answers # <<>>) =>
        IF HitAt(an.answers) # {}
        THEN /\ an.gets \in HitAt(an.answers)
             /\ \A k \in HitAt(an.answers) : an.gets <= k
             /\ an.pc = "fixed"
             /\ an.i = 0
        ELSE /\ an.gets = 1 + MAX_PRIME_RETRIES
             /\ an.pc = "left"
             /\ an.how = "continue"
             /\ an.fixed = <<>>
             /\ an.file = <<>>

\* the samples of a fixed bucket the HIT filter leaves
RECURSIVE Survivors(_)
Survivors(fixed) ==
    IF fixed = <<>> THEN <<>>
    ELSE (IF Head(fixed).first.cache_status # "HIT" THEN <<Head(fixed)>> ELSE <<>>)
         \o Survivors(Tail(fixed))

\* C29: a bundle that was written has at least 5 samples in its fixed
\* bucket, none of them with a HIT as the cache status of its first
\* response, and statistics['tested'] is set only with a bundle written;
\* when fewer than 5 samples of the fixed round are left after the HIT
\* filter no bundle is written, tested is not set and the URL is left with
\* `continue`.
C29_PersistedFixedBucket ==
    an.op = "pre" =>
        /\ an.file # <<>> =>
            /\ Len(an.file[1].fixed) >= MIN_FIXED
            /\ \A k \in DOMAIN an.file[1].fixed :
                    an.file[1].fixed[k].first.cache_status # "HIT"
        /\ an.tested => an.file # <<>>
        /\ (an.before # <<>> /\ Len(Survivors(an.before[1])) < MIN_FIXED) =>
            /\ an.file = <<>>
            /\ ~an.tested
            /\ an.how = "continue"

\* C29 witness: the fixed round recorded 6 samples, one of them with a HIT
\* on its first response; the filter dropped it and the bundle was written
\* with the 5 left.
C29_Witness ==
    /\ an.op = "pre"
    /\ an.file # <<>>
    /\ an.tested
    /\ an.how = "break"
    /\ Len(an.before[1]) = MaxPreRequests
    /\ Len(an.file[1].fixed) = MIN_FIXED

\* C30: every sample of the randomized bucket of the preliminary experiment
\* has the cache status MISS on its first and on its second response.
C30_RandomizedSamplesAreMiss ==
    an.op = "pre" =>
        \A k \in DOMAIN an.randomized :
            /\ an.randomized[k].first.cache_status = "MISS"
            /\ an.randomized[k].second.cache_status = "MISS"
(***************************************************************************)
(* The port of a request.                                                  *)
(***************************************************************************)

\* the port written in the URL when there is one, else the default of the
\* scheme
StatedPort(url) ==
    LET parsed == urlparse(url)
    IN  IF ParsedPort(parsed.netloc) # 0 THEN ParsedPort(parsed.netloc)
        ELSE IF parsed.scheme = <<"h","t","t","p","s">> THEN HTTPS_PORT ELSE HTTP_PORT

\* C35: for every URL, H2Request.port is the port written in the URL when
\* there is one, and otherwise 443 for https and 80 for http.
C35_PortOfTheUrl ==
    an.op = "set_url" => an.request.port = StatedPort(an.url)

\* C35 where it holds: with https, and with http when no port is written
C35_PortOfHttps ==
    (an.op = "set_url"
        /\ (an.request.scheme = <<"h","t","t","p","s">>
                \/ ParsedPort(an.request.host) = 0))
        => an.request.port = StatedPort(an.url)

(***************************************************************************)
(* The label of the analyser.                                              *)
(***************************************************************************)

LABELS == {"Unknown", "NO cache", "CACHE"}

\* more than half of the samples have second.cache_status == 'HIT'
MostlyHit(fixed) == 2 * CountSecond(fixed, HIT) > Len(fixed)

AnyStatus(randomized, fixed) ==
    \/ HasStatus(randomized, HIT) \/ HasStatus(fixed, HIT)
    \/ HasStatus(randomized, MISS) \/ HasStatus(fixed, MISS)

\* C32: the label is one of Unknown, NO cache, CACHE; it is CACHE exactly
\* when more than half of the fixed samples have a HIT on the second
\* response, otherwise NO cache when some sample of either bucket shows HIT
\* or MISS on either response, and Unknown when none does.
C32_LabelByMajorityOfHits ==
    an.op = "label" =>
        /\ an.label \in LABELS
        /\ an.label = "CACHE" <=> MostlyHit(an.fixed)
        /\ an.label = "NO cache" <=>
                (~MostlyHit(an.fixed) /\ AnyStatus(an.randomized, an.fixed))
        /\ an.label = "Unknown" <=>
                (~MostlyHit(an.fixed) /\ ~AnyStatus(an.randomized, an.fixed))

\* C32 as the code has it: CACHE exactly when the fixed samples with a HIT
\* on the second response outnumber those with a MISS there
C32_LabelByHitsOverMisses ==
    an.op = "label" =>
        /\ an.label \in LABELS
        /\ an.label = "CACHE" <=>
                CountSecond(an.fixed, HIT) > CountSecond(an.fixed, MISS)
        /\ MostlyHit(an.fixed) => an.label = "CACHE"
        /\ an.label = "Unknown" <=> ~AnyStatus(an.randomized, an.fixed)

(***************************************************************************)
(* The dicts handed to cache_bust_request.                                 *)
(***************************************************************************)

UserAgentOf(d) == IF DictHas(d, TEST_HEADERS[2]) THEN DictGet(d, TEST_HEADERS[2]) ELSE <<>>

\* new is old, a blank and one token
GrownByOneToken(old, new) ==
    /\ Len(new) = Len(old) + 1 + DefaultLength
    /\ SubSeq(new, 1, Len(old)) = old
    /\ new[Len(old) + 1] = " "
    /\ \A i \in (Len(old) + 2)..Len(new) : new[i] # " "

Blanks(t) == Cardinality({i \in DOMAIN t : t[i] = " "})

\* C37: cache_bust_request writes the new values into the headers dict it
\* is given and returns that dict, and likewise the cookies dict (the shared
\* default one); the User-Agent value of the dict grows by one token per
\* call, and no other dict is touched.
C37_RequestWritesItsArguments ==
    [][(cbOut'.op = "cache_bust_request" /\ cbCalls' = cbCalls + 1) =>
        /\ cbOut'.headers = cbOut'.given
        /\ cbOut'.cookies = "cbr_cookies"
        /\ GrownByOneToken(UserAgentOf(heap[cbOut'.given]),
                           UserAgentOf(heap'[cbOut'.given]))
        /\ \A i \in DOMAIN TEST_HEADERS : DictHas(heap'[cbOut'.given], TEST_HEADERS[i])
        /\ Len(heap'.cbr_cookies) = Len(heap.cbr_cookies) + 1
        /\ \A o \in DOMAIN heap \ {cbOut'.given, "cbr_cookies"} : heap'[o] = heap[o]]_vars

\* two calls were made with the scripts' headers dict, the last call one of
\* them: its User-Agent carries two tokens
C37_Witness ==
    /\ cbOut.op = "cache_bust_request"
    /\ cbOut.given = "headers"
    /\ cbOut.headers = "headers"
    /\ Blanks(UserAgentOf(heap.headers)) = 2
    /\ Len(heap.cbr_cookies) >= 2

(***************************************************************************)
(* Leaving the with block of an engine.                                    *)
(***************************************************************************)

\* the with block was entered (__enter__ returned) and has been left
BlockLeft == run.pc = "exited" /\ h2time.connection.state # "none"

TornDown == ~h2time.connection_open /\ h2time.socket = "closed"

\* C34: whenever control has left a `with H2Time(...)` block, after
\* run_attack returned or raised, the connection is torn down:
\* connection_open is false and the socket is closed.
C34_ExitTearsDown == BlockLeft => TornDown

\* C34 where it holds: the block was left with no exception
C34_QuietExitTearsDown == (BlockLeft /\ ~run.error) => TornDown

\* C34, connect(): a pair that starts on an open connection opens no socket
C34_NoSecondSocket ==
    [][(run.pc = "loop" /\ h2time.connection_open /\ run'.pc = "pump")
        => (TraceIdx("connect")' = {} /\ h2time'.socket = h2time.socket)]_vars

(***************************************************************************)
(* A mode whose attack URLs give identical responses.                      *)
(***************************************************************************)

Without(seq, i) == SubSeq(seq, 1, i - 1) \o SubSeq(seq, i + 1, Len(seq))

\* what analyse returned, with an empty item put in at place i
WithEmptyItem(out, i) ==
    IF out.returned = "None" THEN out
    ELSE AnReturn(SubSeq(out.analysis, 1, i - 1) \o <<NoVerdict>>
                    \o SubSeq(out.analysis, i, Len(out.analysis)))

\* C33: a (url, extension, mode) whose identicality check was true has no
\* randomized and no fixed sample, the controller went on to the next mode,
\* and the analysis of the bundle gives for the other modes the verdicts it
\* gives without that entry.
C33_IdenticalModeIsPassedOver ==
    an.op = "run" =>
        \A i \in an.identical :
            /\ an.data[i].randomized = <<>> /\ an.data[i].fixed = <<>>
            /\ an.data[i].keys = "none"
            /\ (i = Len(an.data) => ~an.raised)
            /\ analyse(an.data, an.ps)
                    = WithEmptyItem(analyse(Without(an.data, i), Without(an.ps, i)), i)

\* C33 witness: the second mode of the first URL was passed over as
\* identical, and the analysis that followed the third iteration gave a
\* verdict for the first and for the third
C33_Witness ==
    /\ an.op = "run"
    /\ an.identical = {2}
    /\ Len(an.data) = 3
    /\ an.stored
    /\ Len(an.analysis) = 3
    /\ an.analysis[1].present /\ ~an.analysis[2].present /\ an.analysis[3].present

\* C33 in the controller: a mode iteration that goes straight on to the
\* next mode has sent nothing and recorded nothing
C33_SkipSendsNothing ==
    [][(ctl.pc = "mode" /\ ctl'.pc = "mode")
        => (wireLog' = wireLog /\ sent_requests' = sent_requests
                /\ request1' = request1 /\ request2' = request2)]_vars

---------------------------------------------------------------------------
(* utils/preliminary-experiment-launcher.py: the sites of the list are     *)
(* taken one by one; before a site is handled, finished workers are reaped *)
(* until fewer than MAX are in `processes`; then the site gets a worker    *)
(* unless it is in `tested`.  A worker is an operating-system process: it  *)
(* exits when it likes, with code 0 or another code, whatever the launcher *)
(* does.  The workers are followed up to the end of the launcher.          *)

\* the longest list of sites
MaxSites == 3

\* the values of --max
MaxWorkers == 2

SITE_A == <<"a">>
SITE_B == <<"b">>
SITE_BLACKLISTED == <<"g","o","o","g","l","e",".","i","t">>

LaunchSites == {SITE_A, SITE_B, SITE_BLACKLISTED}

\* two names of the blacklist
BLACKLIST == {<<"g","o","o","g","l","e">>, <<".","g","o","v">>}

\* any(i in site for i in blacklist)
Blacklisted(site) == \E b \in BLACKLIST : Contains(site, b)

\* a worker: the site it tests, whether it runs or how it exited, and
\* whether the launcher has seen its exit code
Worker(site, state, reaped) == [site |-> site, state |-> state, reaped |-> reaped]

\* main() once the list is read: the sites, MAX, the position in the list,
\* `first`, `processes` (site -> index of the worker), every worker started
\* so far, `tested`, what logs/tested.json holds, and what was loaded from it
Launcher(sites, MAX, loaded) ==
    [op |-> "launch", pc |-> "site", sites |-> sites, MAX |-> MAX, k |-> 1,
     first |-> FALSE, processes |-> <<>>, workers |-> <<>>, tested |-> loaded,
     file |-> loaded, loaded |-> loaded, how |-> "none"]

LaunchInit ==
    /\ CBIdle
    /\ H2Idle
    /\ CtlIdle
    /\ \E sites \in SeqsUpTo(LaunchSites, MaxSites) \ {<<>>}, MAX \in 1..MaxWorkers,
          loaded \in {<<>>, <<SITE_B>>} :
        an = Launcher(sites, MAX, loaded)

InList(x, list) == \E i \in DOMAIN list : list[i] = x

\* the top of `for site in sites`: a blacklisted site is passed over
NextSite ==
    /\ an.op = "launch" /\ an.pc = "site"
    /\ an.k <= Len(an.sites)
    /\ an' = IF Blacklisted(an.sites[an.k])
             THEN [an EXCEPT !.k = @ + 1]
             ELSE [an EXCEPT !.pc = "while", !.first = TRUE]
    /\ UNCHANGED <<cbVars, h2Vars, ctlVars>>

\* `while len(processes) >= MAX or first`
Waiting(L) == Len(L.processes) >= L.MAX \/ L.first

\* the first key of `processes` whose worker has exited, 0 when none has
FirstFinished(L) ==
    IF \E i \in DOMAIN L.processes : L.workers[L.processes[i].v].state # "running"
    THEN CHOOSE i \in DOMAIN L.processes :
            /\ L.workers[L.processes[i].v].state # "running"
            /\ \A j \in 1..(i - 1) : L.workers[L.processes[j].v].state = "running"
    ELSE 0

\* del processes[s]; if state == 0: tested.append(s) and the file is written
Reaped(L, i) ==
    [L EXCEPT !.processes = Without(@, i),
              !.workers[L.processes[i].v].reaped = TRUE,
              !.tested = IF L.workers[L.processes[i].v].state = "exit0"
                         THEN Append(@, L.processes[i].k) ELSE @,
              !.file = IF L.workers[L.processes[i].v].state = "exit0"
                       THEN Append(L.tested, L.processes[i].k) ELSE @]

\* one pass of the while loop: the for loop over processes.keys() ends at
\* the first finished worker (`break`), then sleep(1)
PollPass ==
    /\ an.op = "launch" /\ an.pc = "while"
    /\ Waiting(an)
    /\ an' = IF FirstFinished(an) = 0 THEN [an EXCEPT !.first = FALSE]
             ELSE [Reaped(an, FirstFinished(an)) EXCEPT !.first = FALSE]
    /\ UNCHANGED <<cbVars, h2Vars, ctlVars>>

\* a variant that keeps the worker already filed under the site
Started_KeepRunning(L, site) ==
    IF DictHas(L.processes, site) THEN L
    ELSE [L EXCEPT !.workers = Append(@, Worker(site, "running", FALSE)),
                   !.processes = DictSet(@, site, Len(L.workers) + 1)]

\* p = subprocess.Popen(...); processes[site] = p
Started(L, site) ==
    [L EXCEPT !.workers = Append(@, Worker(site, "running", FALSE)),
              !.processes = DictSet(@, site, Len(L.workers) + 1)]

\* after the while loop: a tested site is passed over, another one gets a
\* worker; popen tells whether subprocess.Popen returns or raises (the
\* exception is logged)
LaunchSite ==
    /\ an.op = "launch" /\ an.pc = "while"
    /\ ~Waiting(an)
    /\ \E popen \in BOOLEAN :
        LET site == an.sites[an.k]
            L == [an EXCEPT !.pc = "site", !.k = @ + 1]
        IN  an' = IF InList(site, an.tested) \/ site = <<>> \/ ~popen THEN L
                  ELSE Started(L, site)
    /\ UNCHANGED <<cbVars, h2Vars, ctlVars>>

\* the list is through: the finally clause writes logs/tested.json
LaunchEnd ==
    /\ an.op = "launch" /\ an.pc = "site"
    /\ an.k > Len(an.sites)
    /\ an' = [an EXCEPT !.pc = "done", !.how = "end", !.file = an.tested]
    /\ UNCHANGED <<cbVars, h2Vars, ctlVars>>

\* Ctrl-C: except KeyboardInterrupt, then the finally clause
LaunchInterrupt ==
    /\ an.op = "launch" /\ an.pc \in {"site", "while"}
    /\ an' = [an EXCEPT !.pc = "done", !.how = "interrupt", !.file = an.tested]
    /\ UNCHANGED <<cbVars, h2Vars, ctlVars>>

\* a running worker exits, with code 0 or with another code
WorkerExits ==
    /\ an.op = "launch" /\ an.pc # "done"
    /\ \E w \in DOMAIN an.workers, state \in {"exit0", "exit1"} :
        /\ an.workers[w].state = "running"
        /\ an' = [an EXCEPT !.workers[w].state = state]
    /\ UNCHANGED <<cbVars, h2Vars, ctlVars>>

LaunchNext ==
    \/ NextSite
    \/ PollPass
    \/ LaunchSite
    \/ LaunchEnd
    \/ LaunchInterrupt
    \/ WorkerExits

SpecLaunch == LaunchInit /\ [][LaunchNext]_vars

RunningWorkers == {w \in DOMAIN an.workers : an.workers[w].state = "running"}

\* C36: at every moment of a launcher run the number of workers started and
\* still running is at most MAX, for any list of sites and any order in
\* which the workers finish.
C36_AtMostMaxWorkers ==
    an.op = "launch" => Cardinality(RunningWorkers) <= an.MAX

NoSiteTwice(sites) == \A i, j \in DOMAIN sites : sites[i] = sites[j] => i = j

\* C36 where it holds: on a list that names no site twice
C36_AtMostMaxWorkersOfDistinctSites ==
    (an.op = "launch" /\ NoSiteTwice(an.sites)) => Cardinality(RunningWorkers) <= an.MAX

\* C40: a site is in the tested list only when the launcher has seen a
\* worker of it exit with code 0 (or it was loaded from the file), and when
\* the launcher has gone through its list every site whose worker has
\* exited with code 0 is in logs/tested.json.
C40_ExitZeroIsRecorded ==
    an.op = "launch" =>
        /\ \A i \in DOMAIN an.tested :
            \/ InList(an.tested[i], an.loaded)
            \/ \E w \in DOMAIN an.workers :
                /\ an.workers[w].site = an.tested[i]
                /\ an.workers[w].state = "exit0"
                /\ an.workers[w].reaped
        /\ (an.pc = "done" /\ an.how = "end") =>
            \A w \in DOMAIN an.workers :
                an.workers[w].state = "exit0" => InList(an.workers[w].site, an.file)

\* C40 where it holds: additions to the tested list, and the file at the end
C40_TestedOnlyAfterExitZero ==
    an.op = "launch" =>
        /\ \A i \in DOMAIN an.tested :
            \/ InList(an.tested[i], an.loaded)
            \/ \E w \in DOMAIN an.workers :
                /\ an.workers[w].site = an.tested[i]
                /\ an.workers[w].state = "exit0"
                /\ an.workers[w].reaped
        /\ an.pc = "done" => an.file = an.tested
        /\ \A w \in DOMAIN an.workers :
            (an.workers[w].reaped /\ an.workers[w].state = "exit0")
                => (InList(an.workers[w].site, an.tested)
                        /\ InList(an.workers[w].site, an.file))

---------------------------------------------------------------------------
(* preliminary-experiment.py and hidden-web-caches-discovery.py: the crawl *)
(* loop over the URLs of the queue.  Of a response only what               *)
(* wcde.cache_headers_heuristics makes of its headers is kept ('HIT',      *)
(* 'MISS' or '-').  The probe of a URL (the warm-up response, the          *)
(* cache-busted requests and the '.css' fallback) is one step, the rounds  *)
(* of a URL that passed the probe are one step that ends in one of the     *)
(* ways the code leaves them; they are followed pair by pair in the        *)
(* specification of one URL above.                                         *)

\* the URLs the crawler hands out in a run
MaxUrls == 3

CACHE_STATUSES == {HIT, MISS, "-"}

\* the requests of the probe after the warm-up, any of which can raise
PROBE_REQUESTS == {"busted", "path_busted", "again", "css", "css_again"}

\* what the servers answer while a URL is probed: the cache status of the
\* warm-up response, of the response to the query-busted URL, to the
\* path-busted URL, to the URL asked again, to the '.css' URL when it is
\* first fetched and when it is fetched again; fails is the request that
\* raises, "none" when none does
ProbeEnv(warm, busted, path_busted, again, css_first, css_last, fails) ==
    [warm |-> warm, busted |-> busted, path_busted |-> path_busted, again |-> again,
     css_first |-> css_first, css_last |-> css_last, fails |-> fails]

ProbeEnvs ==
    {ProbeEnv(warm, busted, path_busted, again, css_first, css_last, fails) :
        warm \in CACHE_STATUSES, busted \in {HIT, MISS}, path_busted \in {HIT, MISS},
        again \in {HIT, MISS}, css_first \in CACHE_STATUSES, css_last \in {HIT, MISS},
        fails \in PROBE_REQUESTS \cup {"none"}}

\* how the probe ends: how is "accepted" ('first' is in sent_requests),
\* "continue" or "raise"; the two flags after it; via tells which branch
\* put 'first' into sent_requests; css_first and css_last are the cache
\* statuses of the '.css' responses the probe fetched ("none": not fetched)
ProbeEnd(how, strong, static, via, css_first, css_last) ==
    [how |-> how, strong_cache_busting |-> strong, static_file_extension |-> static,
     via |-> via, css_first |-> css_first, css_last |-> css_last]

\* cache_status = wcde.cache_headers_heuristics(response.headers), after
\* response2 = browser.get(url2, ...)
FallbackStatus(env) == env.warm

\* `if 'first' not in sent_requests:` the '.css' fallback
Fallback(strong, static, env) ==
    IF env.fails = "css" THEN ProbeEnd("raise", strong, static, "none", "none", "none")
    ELSE IF FallbackStatus(env) = HIT
    THEN ProbeEnd("accepted", strong, TRUE, "css", env.css_first, "none")
    ELSE IF FallbackStatus(env) = MISS
    THEN IF env.fails = "css_again"
         THEN ProbeEnd("raise", strong, static, "none", env.css_first, "none")
         ELSE IF env.css_last = HIT
         THEN ProbeEnd("accepted", strong, TRUE, "css_miss_hit", env.css_first, env.css_last)
         ELSE ProbeEnd("continue", strong, static, "none", env.css_first, env.css_last)
    ELSE ProbeEnd("continue", strong, static, "none", env.css_first, "none")

\* the probe of a URL, from the cache status of the warm-up response to
\* `if 'first' not in sent_requests: continue`
Probe(strong, static, env) ==
    IF env.warm = HIT
    THEN IF env.fails = "busted"
         THEN ProbeEnd("raise", strong, static, "none", "none", "none")
         ELSE IF env.busted = HIT
         THEN IF env.fails = "path_busted"
              THEN ProbeEnd("raise", strong, static, "none", "none", "none")
              ELSE IF env.path_busted = MISS THEN Fallback(TRUE, static, env)
              ELSE ProbeEnd("continue", strong, static, "none", "none", "none")
         ELSE IF env.busted = MISS
         THEN ProbeEnd("accepted", strong, static, "hit", "none", "none")
         ELSE ProbeEnd("continue", strong, static, "none", "none", "none")
    ELSE IF env.warm = MISS
    THEN IF env.fails = "again"
         THEN ProbeEnd("raise", strong, static, "none", "none", "none")
         ELSE IF env.again = HIT
         THEN ProbeEnd("accepted", strong, static, "miss_hit", "none", "none")
         ELSE Fallback(strong, static, env)
    ELSE Fallback(strong, static, env)

NoProbe == ProbeEnd("none", FALSE, FALSE, "none", "none", "none")

\* how the handling of a URL ended, and the flags at that moment
CrawlEntry(how, strong, static) ==
    [how |-> how, strong_cache_busting |-> strong, static_file_extension |-> static]

\* the cache-busting the randomized round uses: path=True and the '.css'
\* suffix
NoRounds == [entered |-> FALSE, path |-> FALSE, css |-> FALSE]

RoundsOf(strong, static) == [entered |-> TRUE, path |-> strong \/ static, css |-> static]

\* main() before the loop: the two flags are False; queue is the number of
\* URLs the crawler will hand out, written the number of output files
Crawl(script, queue) ==
    [op |-> "crawl", script |-> script, pc |-> "top", queue |-> queue,
     strong_cache_busting |-> FALSE, static_file_extension |-> FALSE,
     probe |-> NoProbe, rounds |-> NoRounds, written |-> 0, log |-> <<>>]

CrawlInit ==
    /\ CBIdle
    /\ H2Idle
    /\ CtlIdle
    /\ \E script \in {"preliminary", "hidden"}, queue \in 1..MaxUrls :
        an = Crawl(script, queue)

\* a variant that starts every URL with both flags False
NextTurn_Reset(L, how) ==
    [L EXCEPT !.pc = "top", !.strong_cache_busting = FALSE, !.static_file_extension = FALSE,
              !.log = Append(@, CrawlEntry(how, L.strong_cache_busting,
                                           L.static_file_extension))]

\* `continue`, or the outer `except Exception`: the next turn of the while
\* loop; the flags are locals of main() set before the loop
NextTurn(L, how) ==
    [L EXCEPT !.pc = "top",
              !.log = Append(@, CrawlEntry(how, L.strong_cache_busting,
                                           L.static_file_extension))]

\* a variant without the `break`
AfterWrite_GoOn(L) ==
    [L EXCEPT !.pc = "top", !.written = @ + 1,
              !.log = Append(@, CrawlEntry("break", L.strong_cache_busting,
                                           L.static_file_extension))]

\* the output file is written, statistics['tested'] = True, `break`
AfterWrite(L) ==
    [L EXCEPT !.pc = "done", !.written = @ + 1,
              !.log = Append(@, CrawlEntry("break", L.strong_cache_busting,
                                           L.static_file_extension))]

\* the top of the loop: no URL is left (`break`); or the URL is passed over
\* (visited, excluded), browser.get raises an exception caught on the spot,
\* another exception goes to the outer handler, or the warm-up response is
\* there
PullUrl ==
    /\ an.op = "crawl" /\ an.pc = "top"
    /\ IF an.queue = 0 THEN an' = [an EXCEPT !.pc = "done"]
       ELSE \E L \in {[an EXCEPT !.queue = @ - 1, !.probe = NoProbe, !.rounds = NoRounds]} :
            \/ an' = NextTurn(L, "skipped")
            \/ an' = NextTurn(L, "failed")
            \/ an' = NextTurn(L, "handler")
            \/ an' = [L EXCEPT !.pc = IF L.script = "preliminary" THEN "probe" ELSE "rounds"]
    /\ UNCHANGED <<cbVars, h2Vars, ctlVars>>

WithProbe(L, r) ==
    [L EXCEPT !.probe = r, !.strong_cache_busting = r.strong_cache_busting,
              !.static_file_extension = r.static_file_extension]

\* preliminary-experiment.py: the probe of the URL
ProbeCache ==
    /\ an.op = "crawl" /\ an.pc = "probe"
    /\ \E env \in ProbeEnvs :
        \E r \in {Probe(an.strong_cache_busting, an.static_file_extension, env)} :
            an' = IF r.how = "accepted" THEN [WithProbe(an, r) EXCEPT !.pc = "rounds"]
                  ELSE IF r.how = "raise" THEN NextTurn(WithProbe(an, r), "handler")
                  ELSE NextTurn(WithProbe(an, r), "abandoned")
    /\ UNCHANGED <<cbVars, h2Vars, ctlVars>>

\* the ways the rounds of a URL end: the file is written, a `continue`
\* (the priming gets no HIT, fewer than 5 fixed samples are left), an
\* exception; hidden-web-caches-discovery.py has no `continue` there
RoundEnds(script) ==
    IF script = "preliminary" THEN {"break", "continue", "handler"} ELSE {"break", "handler"}

\* the randomized round, the priming, the fixed round and the output
Rounds ==
    /\ an.op = "crawl" /\ an.pc = "rounds"
    /\ \E end \in RoundEnds(an.script) :
        \E L \in {[an EXCEPT !.rounds = RoundsOf(an.strong_cache_busting,
                                                 an.static_file_extension)]} :
            an' = IF end = "break" THEN AfterWrite(L) ELSE NextTurn(L, end)
    /\ UNCHANGED <<cbVars, h2Vars, ctlVars>>

\* `except KeyboardInterrupt: break`
CrawlInterrupt ==
    /\ an.op = "crawl" /\ an.pc \in {"probe", "rounds"}
    /\ an' = [an EXCEPT !.pc = "done",
                        !.log = Append(@, CrawlEntry("interrupt", an.strong_cache_busting,
                                                     an.static_file_extension))]
    /\ UNCHANGED <<cbVars, h2Vars, ctlVars>>

CrawlNext ==
    \/ PullUrl
    \/ ProbeCache
    \/ Rounds
    \/ CrawlInterrupt

SpecCrawl == CrawlInit /\ [][CrawlNext]_vars

\* the probe of the current URL put 'first' into sent_requests in the
\* '.css' fallback
AcceptedByFallback ==
    /\ an.op = "crawl"
    /\ an.probe.how = "accepted"
    /\ an.probe.via \in {"css", "css_miss_hit"}

\* C31: a URL is accepted through the '.css' fallback ('first' in
\* sent_requests and static_file_extension set) only if a response to the
\* '.css' URL itself was classified HIT, at once or when it was fetched
\* again; the cache status of the warm-up response alone does not do it.
C31_FallbackNeedsHitOnCssUrl ==
    AcceptedByFallback =>
        /\ an.static_file_extension
        /\ an.probe.css_first = HIT \/ an.probe.css_last = HIT

\* C31 as the code has it: the fallback accepts on a HIT of a '.css'
\* response fetched again, or with strong cache-busting just set
C31_FallbackAcceptsOnWarmUpHit ==
    AcceptedByFallback =>
        /\ an.static_file_extension
        /\ an.probe.css_last = HIT \/ (an.probe.via = "css" /\ an.strong_cache_busting)

\* no step of a run takes a flag back
C38_FlagsNeverReset ==
    [][an.op = "crawl" =>
        /\ an.strong_cache_busting => an'.strong_cache_busting
        /\ an.static_file_extension => an'.static_file_extension]_vars

\* a flag that was set when an earlier URL was left is still set, and the
\* randomized round uses the cache-busting the flags select, whichever URL
\* has set them
FlagsSelect ==
    an.op = "crawl" =>
        /\ \A i \in DOMAIN an.log :
            /\ an.log[i].strong_cache_busting => an.strong_cache_busting
            /\ an.log[i].static_file_extension => an.static_file_extension
        /\ (an.script = "preliminary" /\ an.rounds.entered) =>
            /\ an.rounds.path = (an.strong_cache_busting \/ an.static_file_extension)
            /\ an.rounds.css = an.static_file_extension

AtRounds == an.op = "crawl" /\ (an.pc = "rounds" \/ an.rounds.entered)

\* C38: the flags strong_cache_busting and static_file_extension are never
\* reset, a flag set on a URL that was abandoned stays set for the URLs
\* that follow and selects the path and '.css' cache-busting of their
\* randomized round, and whenever strong_cache_busting is true at the
\* randomized round static_file_extension is true as well.
C38_FlagsStayAndStrongHasStatic ==
    /\ FlagsSelect
    /\ AtRounds => (an.strong_cache_busting => an.static_file_extension)

\* an earlier URL was left by an exception with strong_cache_busting set
\* and static_file_extension not
StrongLeftAlone ==
    \E i \in DOMAIN an.log :
        /\ an.log[i].how = "handler"
        /\ an.log[i].strong_cache_busting /\ ~an.log[i].static_file_extension

\* C38 amended: the flags are never reset and select the cache-busting of
\* every later randomized round; strong_cache_busting is true there without
\* static_file_extension only after a URL on which a request of the '.css'
\* fallback raised.
C38_FlagsStayAndStrongHasStaticUnlessRaised ==
    /\ FlagsSelect
    /\ AtRounds =>
            ((an.strong_cache_busting /\ ~an.static_file_extension) => StrongLeftAlone)

\* C38 witness: the first URL set both flags and was left by a `continue`,
\* the second had its randomized round with path and '.css' cache-busting
\* although its own probe accepted it at once
C38_Witness ==
    /\ an.op = "crawl"
    /\ Len(an.log) = 2 /\ an.log[1].how = "continue"
    /\ an.log[1].strong_cache_busting /\ an.log[1].static_file_extension
    /\ an.rounds.entered /\ an.rounds.path /\ an.rounds.css
    /\ an.probe.via = "hit"

Written == {i \in DOMAIN an.log : an.log[i].how = "break"}

====
